---- MODULE Spec2Model ----
(***************************************************************************)
(* Interaction & state-resolution engine of dream-up                       *)
(* (src/src/agent/interaction-engine.ts, src/src/agent/qa-agent.ts).       *)
(*                                                                         *)
(* Spec          the action executor inside one test run: testGame's       *)
(*               script phase, executeActions, executeAction and           *)
(*               handleLevelNavigation, with a clock in seconds.           *)
(* SpecResolver  the overlay resolver: handleModalsAndDialogs and          *)
(*               handleNestedModal against an adversarial page.            *)
(* SpecClassify  the state classifier isGamePlaying over page signals.     *)
(* SpecGate      the gatekeeper handlers for selection and start screens.  *)
(* SpecRace      the executor next to the steps its timers abandoned.      *)
(* SpecOrch      the orchestrators (cli.ts, dashboard/server.ts) around a  *)
(*               session.                                                  *)
(* SpecPolicy    loadConfig and the executor's use of the timeouts.        *)
(* SpecReport    testGame from the script to the report.                   *)
(* SpecKeypress  executeAction, case 'keypress': mapping and key loop.     *)
(* SpecCapture   EvidenceCapture.captureScreenshot.                        *)
(* SpecLoad      QAAgent.loadGame and its retries.                         *)
(* SpecEvaluate  Evaluator.evaluate: parsed and fallback reports.          *)
(* SpecEnsure    ensureGameIsPlaying.                                      *)
(* SpecStartGuard one call of the overlay resolver or of                   *)
(*               ensureGameIsPlaying.                                      *)
(* SpecDetect    detectAndInteract.                                        *)
(* SpecDash      the dashboard server's test state and its resets.         *)
(***************************************************************************)
EXTENDS Integers, Sequences, FiniteSets, TLC

VARIABLES
  runPhase,              \* testGame position
  actions,               \* the script handed to the running executeActions
  i,                     \* executeActions: zero-based loop index
  pc,                    \* position inside executeActions / executeAction
  clock,                 \* Date.now() - startTime of executeActions (s)
  actElapsed,            \* Date.now() - startTime of executeAction (s)
  levelNavigationCount,  \* executeActions: local counter
  postI,                 \* testGame: index of the post-script level loop
  thrown,                \* message of the error that left executeActions
  browserOpen,           \* the remote browser is still reachable
  kpN,                   \* keypress loop index
  navK,                  \* handleLevelNavigation: index into nextLevelTexts
  navButtons,            \* levelInfo.buttons.length > 0
  navClicks,             \* clicks that hit a control in this navigator call
  clickAtCap,            \* the session offers the optional clickAt
  waitRequested,         \* half-seconds handed to session.wait by a Wait
  clickDelivered,        \* the session completed a click call of this action
  closedDetected,        \* an isBrowserOpen probe of this run returned false
  navAllAdvanced,        \* every navigator call of this run so far saw a
                         \* level screen and advanced
  advances,              \* the number of those calls while navAllAdvanced
  rs,                    \* overlay resolver state (SpecResolver)
  cl,                    \* classifier state (SpecClassify)
  gt,                    \* gatekeeper handlers' state (SpecGate)
  rc,                    \* the executor and its abandoned steps (SpecRace)
  oc,                    \* the orchestrators' state (SpecOrch)
  pl,                    \* timeout policy at script start (SpecPolicy)
  rp,                    \* testGame from the script to the report (SpecReport)
  kp,                    \* key mapping and press loop (SpecKeypress)
  ev,                    \* captureScreenshot and the capture list (SpecCapture)
  ld,                    \* loadGame state (SpecLoad)
  er,                    \* evaluator state (SpecEvaluate)
  en,                    \* ensureGameIsPlaying state (SpecEnsure)
  da,                    \* detectAndInteract state (SpecDetect)
  ds                     \* dashboard server state (SpecDash)

vars == <<runPhase, actions, i, pc, clock, actElapsed,
          levelNavigationCount, postI, thrown, browserOpen, kpN, navK,
          navButtons, navClicks, clickAtCap, waitRequested, clickDelivered,
          closedDetected, advances, navAllAdvanced, rs, cl, gt, rc, oc, pl,
          rp, kp, ev, ld, er, en, da, ds>>

execVars == <<runPhase, actions, i, pc, clock, actElapsed,
              levelNavigationCount, postI, thrown, browserOpen, kpN, navK,
              navButtons, navClicks, clickAtCap, waitRequested, clickDelivered, closedDetected, advances,
              navAllAdvanced>>

Min(a, b) == IF a < b THEN a ELSE b

(***************************************************************************)
(* Bounds of the model.                                                    *)
(***************************************************************************)
\* timeouts.action, in seconds
ActionBudget == 3
\* timeouts.total, in seconds
TotalBudget == 10
\* longest script drawn for executeActions
MaxActions == 9
\* longest script whose actions are all drawn independently
MaxMixed == 2
\* most buttons visible on a page at once (SpecResolver)
MaxButtons == 2

(***************************************************************************)
(* Program constants.                                                      *)
(***************************************************************************)
\* executeActions: const maxLevelNavigations = 2
maxLevelNavigations == 2
\* testGame: const maxLevels = 3
maxLevels == 3
\* executeActions: if (i % 4 === 0 && ...)
NavCadence == 4
\* executeAction, case 'wait': remaining = actionTimeout - elapsed - 1000
WaitBufferSecs == 1
\* handleLevelNavigation: nextLevelTexts.length
NumNextLevelTexts == 5

(***************************************************************************)
(* Error messages.  The catch block of executeAction tells a timeout from  *)
(* any other error by error.message.includes('timeout').                   *)
(***************************************************************************)
ErrTotal == "Total execution timeout exceeded"
ErrActionExceeded == "Action timeout exceeded"
ErrActionRace == "Action timeout"
ErrClickArgs == "Click action requires either a selector or x/y coordinates"
ErrKey == "Keypress action requires a key"
ErrUnknown == "Unknown action type"
\* errors raised by the session itself
ErrClosed == "Target closed"
ErrSession == "Node not found"

\* the catch of executeAction: error.message.includes('timeout')
MsgIncludesTimeout(m) == m \in {ErrTotal, ErrActionExceeded, ErrActionRace}

\* e.message.includes('closed')
MsgIncludesClosed(m) == m = ErrClosed

(***************************************************************************)
(* The session.  A call returns ("ok"), rejects ("fail"), or rejects       *)
(* because the browser went away ("closed"); a closed browser stays        *)
(* closed.  A call that asks for m seconds takes m, m+1, or outlasts the   *)
(* per-action budget.                                                      *)
(***************************************************************************)
Outcomes == IF browserOpen THEN {"ok", "fail", "closed"} ELSE {"closed"}

SessionErr(o) == IF o = "closed" THEN ErrClosed ELSE ErrSession

Hang == ActionBudget + 1

Lat(m) == {m, m + 1, m + Hang}

ShortLat(m) == {m, m + 1}

(***************************************************************************)
(* Action descriptors (src/src/types/config.ts).  halfSecs is              *)
(* action.duration in units of 0.5 s; 0 stands for an absent duration,     *)
(* repeat 0 for an absent repeat.                                          *)
(***************************************************************************)
Act(t, h, sel, xy, key, rep) ==
  [type |-> t, halfSecs |-> h, selector |-> sel, xy |-> xy, key |-> key,
   repeat |-> rep]

WaitShort == Act("wait", 2, FALSE, FALSE, FALSE, 0)
WaitLong == Act("wait", 2 * (ActionBudget + 1), FALSE, FALSE, FALSE, 0)
ClickSel == Act("click", 0, TRUE, FALSE, FALSE, 0)
ClickXY == Act("click", 0, FALSE, TRUE, FALSE, 0)
ClickNone == Act("click", 0, FALSE, FALSE, FALSE, 0)
KeyOnce == Act("keypress", 0, FALSE, FALSE, TRUE, 0)
KeyMissing == Act("keypress", 0, FALSE, FALSE, FALSE, 0)
ClickBoth == Act("click", 0, TRUE, TRUE, FALSE, 0)
Shot == Act("screenshot", 0, FALSE, FALSE, FALSE, 0)
Bogus == Act("bogus", 0, FALSE, FALSE, FALSE, 0)

ActionKinds == {WaitShort, WaitLong, ClickSel, ClickXY, ClickBoth, ClickNone,
                KeyOnce, KeyMissing, Shot, Bogus}

\* the scripts executeActions is started with: every script of at most
\* MaxMixed actions, and the longer ones that repeat one action
Scripts ==
  UNION {[1..n -> ActionKinds] : n \in 0..MaxMixed}
  \cup {[k \in 1..n |-> a] : n \in (MaxMixed + 1)..MaxActions, a \in ActionKinds}

\* testGame: the four actions run on each new level
FollowUpScript ==
  << Act("keypress", 0, FALSE, FALSE, TRUE, 2),
     Act("wait", 1, FALSE, FALSE, FALSE, 0),
     Act("keypress", 0, FALSE, FALSE, TRUE, 2),
     Act("wait", 1, FALSE, FALSE, FALSE, 0) >>

Cur == actions[i + 1]

(***************************************************************************)
(* Timing predicates of executeActions / executeAction.                    *)
(***************************************************************************)
TotalTimedOut_Never(c) == FALSE

\* executeActions: Date.now() - startTime > totalTimeout
TotalTimedOut(c) == c > TotalBudget

\* executeAction: checkTimeout and the check after the switch
ActionTimedOut(e) == e > ActionBudget

\* Promise.race([call, timeoutPromise(t)]): the timer wins
RaceLost(d, t) == d >= t

WaitDuration(a) == IF a.halfSecs = 0 THEN 2 ELSE a.halfSecs

WaitRemaining(e) == ActionBudget - e - WaitBufferSecs

ActualWait_Uncapped(a, e) == WaitDuration(a)

\* case 'wait': Math.min(duration, remaining), in half-seconds
ActualWait(a, e) == Min(WaitDuration(a), 2 * WaitRemaining(e))

NavDue_NoCap(idx, cnt) == idx % NavCadence = 0

\* executeActions: i % 4 === 0 && levelNavigationCount < maxLevelNavigations
NavDue(idx, cnt) == idx % NavCadence = 0 /\ cnt < maxLevelNavigations

Tick(d) ==
  /\ clock' = Min(clock + d, TotalBudget + 1)
  /\ actElapsed' = Min(actElapsed + d, ActionBudget + 1)

Closes(o) == browserOpen' = (browserOpen /\ o # "closed")

\* the catch block of executeAction
Catch(e) ==
  IF MsgIncludesTimeout(e)
  THEN pc' = "threw" /\ thrown' = e
  ELSE pc' = "afterAction" /\ thrown' = thrown

\* checkTimeout() followed by the next stage
CheckThen(next) ==
  IF ActionTimedOut(actElapsed')
  THEN Catch(ErrActionExceeded)
  ELSE pc' = next /\ thrown' = thrown

InExecuteActions == runPhase \in {"main", "postScript"}

loopFrame == <<runPhase, actions, i, levelNavigationCount, postI, kpN, navK,
               navButtons, navClicks, clickAtCap, advances, navAllAdvanced,
               rs, cl, gt, rc, oc, pl, rp, kp, ev, ld, er, en, da, ds>>

(***************************************************************************)
(* executeActions: loop head.                                              *)
(***************************************************************************)
LoopHead ==
  /\ InExecuteActions /\ pc = "loop"
  /\ IF i >= Len(actions)
     THEN pc' = "returned" /\ thrown' = thrown
     ELSE IF TotalTimedOut(clock)
          THEN pc' = "threw" /\ thrown' = ErrTotal
          ELSE pc' = "exec" /\ thrown' = thrown
  /\ actElapsed' = 0
  /\ waitRequested' = 0
  /\ clickDelivered' = FALSE
  /\ UNCHANGED closedDetected
  /\ navClicks' = 0
  /\ UNCHANGED <<clock, browserOpen>>
  /\ UNCHANGED <<runPhase, actions, i, levelNavigationCount, postI, kpN, navK,
                 navButtons, clickAtCap, advances, navAllAdvanced, rs, cl, gt, rc, oc, pl, rp, kp, ev, ld, er, en, da, ds>>

(***************************************************************************)
(* executeAction, case 'wait'.                                             *)
(***************************************************************************)
ExecWait ==
  /\ InExecuteActions /\ pc = "exec" /\ Cur.type = "wait"
  /\ IF ActionTimedOut(actElapsed) \/ WaitRemaining(actElapsed) <= 0
     THEN /\ Catch(ErrActionExceeded)
          /\ UNCHANGED <<clock, actElapsed, browserOpen, waitRequested>>
     ELSE LET w == ActualWait(Cur, actElapsed)
              t == ActionBudget - actElapsed
          IN /\ waitRequested' = w
             /\ IF w > 0
                THEN \E d \in Lat(w \div 2), o \in Outcomes :
                       /\ Closes(o)
                       /\ IF RaceLost(d, t)
                          THEN Tick(t) /\ Catch(ErrActionRace)
                          ELSE /\ Tick(d)
                               /\ IF o = "ok"
                                  THEN pc' = "postcheck" /\ thrown' = thrown
                                  ELSE Catch(SessionErr(o))
                ELSE /\ pc' = "postcheck" /\ thrown' = thrown
                     /\ UNCHANGED <<clock, actElapsed, browserOpen>>
  /\ UNCHANGED <<clickDelivered, closedDetected>>
  /\ UNCHANGED loopFrame

\* the check after the switch: elapsed > actionTimeout
PostCheck ==
  /\ InExecuteActions /\ pc = "postcheck"
  /\ IF ActionTimedOut(actElapsed)
     THEN Catch(ErrActionExceeded)
     ELSE pc' = "afterAction" /\ thrown' = thrown
  /\ UNCHANGED <<clock, actElapsed, browserOpen, waitRequested, clickDelivered, closedDetected>>
  /\ UNCHANGED loopFrame

\* default: throw new Error(`Unknown action type`)
ExecUnknown ==
  /\ InExecuteActions /\ pc = "exec"
  /\ Cur.type \notin {"wait", "click", "keypress", "screenshot"}
  /\ Catch(ErrUnknown)
  /\ UNCHANGED <<clock, actElapsed, browserOpen, waitRequested, clickDelivered, closedDetected>>
  /\ UNCHANGED loopFrame


(***************************************************************************)
(* executeAction, case 'click'.                                            *)
(***************************************************************************)
stageFrame == <<runPhase, actions, i, levelNavigationCount, postI, navK,
                navButtons, navClicks, clickAtCap, waitRequested, clickDelivered, closedDetected, advances,
                navAllAdvanced, rs, cl, gt, rc, oc, pl, rp, kp, ev, ld, er, en, da, ds>>

clickFrame == <<runPhase, actions, i, levelNavigationCount, postI, navK,
                navButtons, navClicks, clickAtCap, waitRequested,
                closedDetected, advances,
                navAllAdvanced, rs, cl, gt, rc, oc, pl, rp, kp, ev, ld, er, en, da, ds>>

\* a session call raced against timeoutPromise(actionTimeout), then `next`
RacedCall(d, o, next) ==
  /\ Closes(o)
  /\ IF RaceLost(d, ActionBudget)
     THEN Tick(ActionBudget) /\ Catch(ErrActionRace)
     ELSE /\ Tick(d)
          /\ IF o = "ok"
             THEN pc' = next /\ thrown' = thrown
             ELSE Catch(SessionErr(o))

\* an awaited session call that is not raced, then `next`
PlainCall(d, o, next) ==
  /\ Closes(o)
  /\ Tick(d)
  /\ IF o = "ok"
     THEN pc' = next /\ thrown' = thrown
     ELSE Catch(SessionErr(o))

\* isGamePlaying raced against a timer that resolves true, then
\* handleModalsAndDialogs (and handleSelectionScreen) when not playing;
\* none of them throws
QuickStateCheck(d, o, playing) ==
  /\ o \in {"ok", "closed"}
  /\ d \in (IF playing THEN ShortLat(0) ELSE Lat(0))
  /\ Closes(o)
  /\ Tick(d)

ClickArgsMissing_Never(a) == FALSE

\* !action.selector && (action.x === undefined || action.y === undefined)
ClickArgsMissing(a) == ~a.selector /\ ~a.xy

ExecClick ==
  /\ InExecuteActions /\ pc = "exec" /\ Cur.type = "click"
  /\ IF ClickArgsMissing(Cur)
     THEN /\ Catch(ErrClickArgs)
          /\ UNCHANGED <<clock, actElapsed, browserOpen, clickDelivered, closedDetected>>
     ELSE IF Cur.xy /\ clickAtCap
     THEN \* coordinate click inside its own try/catch
          \E d \in Lat(0), o \in Outcomes :
            /\ Closes(o)
            /\ clickDelivered' = (o = "ok")
            /\ thrown' = thrown
            /\ IF RaceLost(d, ActionBudget)
               THEN /\ Tick(ActionBudget)
                    /\ pc' = IF Cur.selector THEN "click_fallback"
                                             ELSE "click_settle"
               ELSE /\ Tick(d)
                    /\ pc' = IF o # "ok" /\ Cur.selector
                             THEN "click_fallback" ELSE "click_settle"
     ELSE IF Cur.selector
     THEN \E d \in Lat(0), o \in Outcomes :
            /\ RacedCall(d, o, "click_settle")
            /\ clickDelivered' = (o = "ok")
     ELSE \* coordinates only and no clickAt: no branch clicks
          /\ pc' = "click_settle" /\ thrown' = thrown
          /\ UNCHANGED <<clock, actElapsed, browserOpen, clickDelivered, closedDetected>>
  /\ UNCHANGED kpN
  /\ UNCHANGED clickFrame

\* catch of the coordinate click: session.click(action.selector), raced
ClickFallback ==
  /\ InExecuteActions /\ pc = "click_fallback"
  /\ \E d \in Lat(0), o \in Outcomes :
       /\ RacedCall(d, o, "click_settle")
       /\ clickDelivered' = (clickDelivered \/ o = "ok")
  /\ UNCHANGED kpN
  /\ UNCHANGED clickFrame

\* await this.session.wait(1000)
ClickSettle ==
  /\ InExecuteActions /\ pc = "click_settle"
  /\ \E d \in Lat(1), o \in Outcomes : PlainCall(d, o, "click_check")
  /\ UNCHANGED kpN
  /\ UNCHANGED stageFrame

ClickCheck ==
  /\ InExecuteActions /\ pc = "click_check"
  /\ \E playing \in BOOLEAN, d \in Lat(0), o \in Outcomes :
       QuickStateCheck(d, o, playing)
  /\ pc' = "click_shot" /\ thrown' = thrown
  /\ UNCHANGED kpN
  /\ UNCHANGED stageFrame

\* captureScreenshot (never rejects) and session.wait(200)
ClickShot ==
  /\ InExecuteActions /\ pc = "click_shot"
  /\ \E d \in Lat(0), o \in Outcomes : PlainCall(d, o, "postcheck")
  /\ UNCHANGED kpN
  /\ UNCHANGED stageFrame

(***************************************************************************)
(* executeAction, case 'keypress'.                                         *)
(***************************************************************************)
Repeat(a) == IF a.repeat = 0 THEN 1 ELSE a.repeat

probeFrame == <<runPhase, actions, i, levelNavigationCount, postI, navK,
                navButtons, navClicks, clickAtCap, waitRequested,
                clickDelivered, advances, navAllAdvanced, rs, cl, gt, rc, oc,
                pl, rp, kp, ev, ld, er, en, da, ds>>

Probe_GoesOn(d, o, next) ==
  /\ Closes(o)
  /\ Tick(d)
  /\ thrown' = thrown
  /\ closedDetected' = (closedDetected \/ o # "ok")
  /\ pc' = next

\* isBrowserOpen(): evaluate('document.body'); any rejection means closed,
\* and the caller returns from executeAction
Probe(d, o, next) ==
  /\ Closes(o)
  /\ Tick(d)
  /\ thrown' = thrown
  /\ closedDetected' = (closedDetected \/ o # "ok")
  /\ pc' = IF o = "ok" THEN next ELSE "afterAction"

ExecKeypress ==
  /\ InExecuteActions /\ pc = "exec" /\ Cur.type = "keypress"
  /\ IF ~Cur.key
     THEN /\ Catch(ErrKey)
          /\ UNCHANGED <<clock, actElapsed, browserOpen>>
     ELSE /\ \E playing \in BOOLEAN, d \in Lat(0), o \in Outcomes :
               QuickStateCheck(d, o, playing)
          /\ CheckThen("kp_focus")
  /\ kpN' = 0
  /\ UNCHANGED stageFrame

\* focus attempt: evaluate and wait(200) in a try that swallows
KpFocus ==
  /\ InExecuteActions /\ pc = "kp_focus"
  /\ \E d \in Lat(0), o \in Outcomes : Closes(o) /\ Tick(d)
  /\ CheckThen("kp_press")
  /\ UNCHANGED kpN
  /\ UNCHANGED stageFrame

\* one iteration of the keypress loop: session.keypress raced
KpPress ==
  /\ InExecuteActions /\ pc = "kp_press"
  /\ kpN < Repeat(Cur)
  /\ \E d \in Lat(0), o \in Outcomes :
       /\ Closes(o)
       /\ IF RaceLost(d, ActionBudget)
          THEN Tick(ActionBudget) /\ Catch(ErrActionRace)
          ELSE /\ Tick(d)
               /\ IF o # "ok"
                  THEN Catch(SessionErr(o))
                  ELSE IF kpN < Repeat(Cur) - 1
                  THEN pc' = "kp_pause" /\ thrown' = thrown
                  ELSE CheckThen("kp_settle")
  /\ kpN' = kpN + 1
  /\ UNCHANGED stageFrame

\* the delay between two presses: session.wait(i === 0 ? 400 : 300)
KpPause ==
  /\ InExecuteActions /\ pc = "kp_pause"
  /\ \E d \in ShortLat(0), o \in Outcomes :
       /\ Closes(o)
       /\ Tick(d)
       /\ IF o = "ok" THEN CheckThen("kp_press") ELSE Catch(SessionErr(o))
  /\ UNCHANGED kpN
  /\ UNCHANGED stageFrame

\* session.wait(1000), checkTimeout
KpSettle ==
  /\ InExecuteActions /\ pc = "kp_settle"
  /\ \E d \in Lat(1), o \in Outcomes :
       /\ Closes(o)
       /\ Tick(d)
       /\ IF o = "ok" THEN CheckThen("kp_probe1") ELSE Catch(SessionErr(o))
  /\ UNCHANGED kpN
  /\ UNCHANGED stageFrame

KpProbe1 ==
  /\ InExecuteActions /\ pc = "kp_probe1"
  /\ \E d \in Lat(0), o \in Outcomes : Probe(d, o, "kp_modal")
  /\ UNCHANGED kpN
  /\ UNCHANGED probeFrame

\* handleModalsAndDialogs (never throws); session.wait(300) when it
\* reports a dismissal
KpModal ==
  /\ InExecuteActions /\ pc = "kp_modal"
  /\ \E handled \in BOOLEAN, d \in Lat(0), o \in Outcomes :
       /\ Closes(o)
       /\ Tick(d)
       /\ IF handled /\ o # "ok"
          THEN IF MsgIncludesClosed(SessionErr(o))
               THEN pc' = "afterAction" /\ thrown' = thrown
               ELSE Catch(SessionErr(o))
          ELSE pc' = "kp_probe2" /\ thrown' = thrown
  /\ UNCHANGED kpN
  /\ UNCHANGED stageFrame

KpProbe2 ==
  /\ InExecuteActions /\ pc = "kp_probe2"
  /\ \E d \in Lat(0), o \in Outcomes : Probe(d, o, "kp_state")
  /\ UNCHANGED kpN
  /\ UNCHANGED probeFrame

\* isGamePlaying(2000), then ensureGameIsPlaying(2) raced against a 5 s
\* timer when the game stopped; errors are swallowed; checkTimeout
KpState ==
  /\ InExecuteActions /\ pc = "kp_state"
  /\ \E d \in Lat(0), o \in {"ok", "closed"} : Closes(o) /\ Tick(d)
  /\ CheckThen("kp_probe3")
  /\ UNCHANGED kpN
  /\ UNCHANGED stageFrame

KpProbe3 ==
  /\ InExecuteActions /\ pc = "kp_probe3"
  /\ \E d \in Lat(0), o \in Outcomes : Probe(d, o, "kp_confirm")
  /\ UNCHANGED kpN
  /\ UNCHANGED probeFrame

\* confirmation-modal check in a try that swallows
KpConfirm ==
  /\ InExecuteActions /\ pc = "kp_confirm"
  /\ \E d \in Lat(0), o \in Outcomes : Closes(o) /\ Tick(d)
  /\ pc' = "kp_probe4" /\ thrown' = thrown
  /\ UNCHANGED kpN
  /\ UNCHANGED stageFrame

KpProbe4 ==
  /\ InExecuteActions /\ pc = "kp_probe4"
  /\ \E d \in Lat(0), o \in Outcomes : Probe(d, o, "kp_shot")
  /\ UNCHANGED kpN
  /\ UNCHANGED probeFrame

\* captureScreenshot raced against 15 s (swallowed), session.wait(200)
KpShot ==
  /\ InExecuteActions /\ pc = "kp_shot"
  /\ \E d \in Lat(0), o \in Outcomes : PlainCall(d, o, "postcheck")
  /\ UNCHANGED kpN
  /\ UNCHANGED stageFrame

(***************************************************************************)
(* executeAction, case 'screenshot'.                                       *)
(***************************************************************************)
ExecShot ==
  /\ InExecuteActions /\ pc = "exec" /\ Cur.type = "screenshot"
  /\ \E d \in Lat(0), o \in Outcomes : Probe(d, o, "shot_take")
  /\ UNCHANGED kpN
  /\ UNCHANGED probeFrame

ShotTake ==
  /\ InExecuteActions /\ pc = "shot_take"
  /\ \E d \in Lat(0), o \in Outcomes : PlainCall(d, o, "postcheck")
  /\ UNCHANGED kpN
  /\ UNCHANGED stageFrame


(***************************************************************************)
(* executeActions: the level-navigation slot after an action, and          *)
(* handleLevelNavigation, which testGame also calls after the script.      *)
(***************************************************************************)
AfterAction ==
  /\ InExecuteActions /\ pc = "afterAction"
  /\ IF NavDue(i, levelNavigationCount)
     THEN pc' = "nav_eval" /\ i' = i
     ELSE pc' = "loop" /\ i' = i + 1
  /\ actElapsed' = 0
  /\ kpN' = 0
  /\ waitRequested' = 0
  /\ clickDelivered' = FALSE
  /\ UNCHANGED closedDetected
  /\ UNCHANGED <<runPhase, actions, clock, levelNavigationCount, postI, thrown,
                 browserOpen, navK, navButtons, navClicks, clickAtCap,
                 advances, navAllAdvanced, rs, cl, gt, rc, oc, pl, rp, kp, ev, ld, er, en, da, ds>>

NavTick(d) ==
  clock' = IF InExecuteActions THEN Min(clock + d, TotalBudget + 1) ELSE clock

\* handleLevelNavigation returns `result` to its caller
NavReturn(result) ==
  /\ advances' = IF navAllAdvanced /\ result THEN advances + 1 ELSE 0
  /\ navAllAdvanced' = (navAllAdvanced /\ result)
  /\ navK' = 0
  /\ navButtons' = FALSE
  /\ IF InExecuteActions
     THEN /\ runPhase' = runPhase
          /\ IF result
             THEN /\ levelNavigationCount' = levelNavigationCount + 1
                  /\ pc' = "advance_wait" /\ i' = i
             ELSE /\ levelNavigationCount' = levelNavigationCount
                  /\ pc' = "loop" /\ i' = i + 1
     ELSE /\ UNCHANGED <<levelNavigationCount, i>>
          /\ IF result
             THEN pc' = "post_wait" /\ runPhase' = runPhase
             ELSE pc' = "done" /\ runPhase' = "finished"

navFrame == <<actions, actElapsed, postI, thrown, kpN, clickAtCap,
              waitRequested, clickDelivered, closedDetected, rs, cl, gt, rc, oc, pl, rp, kp, ev, ld, er, en, da, ds>>

\* the evaluate that looks for level-complete words and buttons
NavEval ==
  /\ pc = "nav_eval"
  /\ \E d \in ShortLat(0), o \in Outcomes, words \in BOOLEAN, btns \in BOOLEAN :
       /\ Closes(o)
       /\ NavTick(d)
       /\ navClicks' = 0
       /\ IF o # "ok" \/ ~(words \/ btns)
          THEN NavReturn(FALSE)
          ELSE /\ navK' = 0 /\ navButtons' = btns
               /\ pc' = "nav_try"
               /\ UNCHANGED <<runPhase, i, levelNavigationCount, advances,
                              navAllAdvanced>>
  /\ UNCHANGED navFrame

NavResults ==
  IF browserOpen
  THEN {"throw", "closed", "miss", "hit_waitfail", "hit_playing", "hit_stuck"}
  ELSE {"closed"}

NavNext_OneMore(k) ==
  IF k < NumNextLevelTexts THEN "nav_try" ELSE "nav_fallback"

\* the loop over nextLevelTexts goes on, or ends in the fallback
NavNext(k) == IF k + 1 < NumNextLevelTexts THEN "nav_try" ELSE "nav_fallback"

\* one turn of: for (const btnText of nextLevelTexts)
NavTry ==
  /\ pc = "nav_try"
  /\ \E r \in NavResults, d \in ShortLat(0) :
       /\ browserOpen' = (browserOpen /\ r # "closed")
       /\ navClicks' = IF r \in {"hit_waitfail", "hit_playing", "hit_stuck"}
                       THEN navClicks + 1 ELSE navClicks
       /\ NavTick(IF r \in {"hit_playing", "hit_stuck"} THEN d + 3 ELSE d)
       /\ IF r \in {"throw", "closed", "hit_waitfail"}
          THEN NavReturn(FALSE)
          ELSE IF r = "hit_playing"
          THEN NavReturn(TRUE)
          ELSE /\ navK' = navK + 1
               /\ pc' = NavNext(navK)
               /\ UNCHANGED <<runPhase, i, levelNavigationCount, advances,
                              navAllAdvanced, navButtons>>
  /\ UNCHANGED navFrame

\* fallback: click levelInfo.buttons[0] inside its own try/catch
NavFallback ==
  /\ pc = "nav_fallback"
  /\ IF navButtons
     THEN \E r \in NavResults \ {"hit_stuck"}, d \in ShortLat(0) :
            /\ browserOpen' = (browserOpen /\ r # "closed")
            /\ navClicks' = IF r \in {"hit_waitfail", "hit_playing"}
                            THEN navClicks + 1 ELSE navClicks
            /\ NavTick(IF r = "hit_playing" THEN d + 3 ELSE d)
            /\ NavReturn(r = "hit_playing")
     ELSE /\ NavReturn(FALSE)
          /\ UNCHANGED <<browserOpen, navClicks, clock>>
  /\ UNCHANGED navFrame

\* executeActions after an advance: session.wait(2000) outside any try,
\* then captureScreenshot (never rejects)
AdvanceSettle ==
  /\ InExecuteActions /\ pc = "advance_wait"
  /\ \E d \in ShortLat(2), o \in Outcomes :
       /\ Closes(o)
       /\ NavTick(d)
       /\ IF o = "ok"
          THEN pc' = "loop" /\ i' = i + 1 /\ thrown' = thrown
          ELSE pc' = "threw" /\ i' = i /\ thrown' = SessionErr(o)
  /\ UNCHANGED <<runPhase, actions, actElapsed, levelNavigationCount, postI,
                 kpN, navK, navButtons, navClicks, clickAtCap, waitRequested, clickDelivered, closedDetected,
                 advances, navAllAdvanced, rs, cl, gt, rc, oc, pl, rp, kp, ev, ld, er, en, da, ds>>

(***************************************************************************)
(* testGame: the script, then the level loop that follows it.              *)
(***************************************************************************)
\* executeActions returned to testGame
ScriptReturned ==
  /\ InExecuteActions /\ pc = "returned"
  /\ postI' = IF runPhase = "main" THEN 0 ELSE postI + 1
  /\ runPhase' = "postNav"
  /\ pc' = "post_loop"
  /\ UNCHANGED <<actions, i, clock, actElapsed, levelNavigationCount, thrown,
                 browserOpen, kpN, navK, navButtons, navClicks, clickAtCap,
                 waitRequested, clickDelivered, closedDetected, advances, navAllAdvanced, rs, cl, gt, rc, oc, pl, rp, kp, ev, ld, er, en, da, ds>>

\* for (let i = 0; i < maxLevels - 1; i++)
PostLoopHead ==
  /\ runPhase = "postNav" /\ pc = "post_loop"
  /\ IF postI < maxLevels - 1
     THEN pc' = "nav_eval" /\ runPhase' = runPhase
     ELSE pc' = "done" /\ runPhase' = "finished"
  /\ UNCHANGED <<actions, i, clock, actElapsed, levelNavigationCount, postI,
                 thrown, browserOpen, kpN, navK, navButtons, navClicks,
                 clickAtCap, waitRequested, clickDelivered, closedDetected, advances, navAllAdvanced, rs, cl, gt, rc, oc, pl, rp, kp, ev, ld, er, en, da, ds>>

\* session.wait(2000), captureScreenshot, executeActions([...4 actions])
PostSettle ==
  /\ runPhase = "postNav" /\ pc = "post_wait"
  /\ \E o \in Outcomes :
       /\ Closes(o)
       /\ IF o = "ok"
          THEN /\ runPhase' = "postScript"
               /\ actions' = FollowUpScript
               /\ pc' = "loop"
          ELSE /\ runPhase' = "error"
               /\ actions' = actions
               /\ pc' = "done"
  /\ i' = 0
  /\ clock' = 0
  /\ levelNavigationCount' = 0
  /\ UNCHANGED <<actElapsed, postI, thrown, kpN, navK, navButtons, navClicks,
                 clickAtCap, waitRequested, clickDelivered, closedDetected, advances, navAllAdvanced, rs, cl, gt, rc, oc, pl, rp, kp, ev, ld, er, en, da, ds>>

\* an error left executeActions: testGame's catch builds the error report
TestGameCatch ==
  /\ InExecuteActions /\ pc = "threw"
  /\ runPhase' = "error"
  /\ pc' = "done"
  /\ UNCHANGED <<actions, i, clock, actElapsed, levelNavigationCount, postI,
                 thrown, browserOpen, kpN, navK, navButtons, navClicks,
                 clickAtCap, waitRequested, clickDelivered, closedDetected, advances, navAllAdvanced, rs, cl, gt, rc, oc, pl, rp, kp, ev, ld, er, en, da, ds>>

RsIdle == [pc |-> "idle"]

ClIdle == [pc |-> "idle"]

GtIdle == [pc |-> "idle"]

RcIdle == [pc |-> "idle"]

OcIdle == [pc |-> "idle"]

PlIdle == [pc |-> "idle"]

RpIdle == [pc |-> "idle"]

KpIdle == [pc |-> "idle"]

EvIdle == [pc |-> "idle"]

LdIdle == [pc |-> "idle"]

ErIdle == [pc |-> "idle"]

EnIdle == [pc |-> "idle"]

DaIdle == [pc |-> "idle"]

DsIdle == [pc |-> "idle"]

Init ==
  /\ runPhase = "main"
  /\ actions \in Scripts
  /\ i = 0
  /\ pc = "loop"
  /\ clock = 0
  /\ actElapsed = 0
  /\ levelNavigationCount = 0
  /\ postI = 0
  /\ thrown = "none"
  /\ browserOpen = TRUE
  /\ kpN = 0
  /\ navK = 0
  /\ navButtons = FALSE
  /\ navClicks = 0
  /\ clickAtCap \in BOOLEAN
  /\ waitRequested = 0
  /\ clickDelivered = FALSE
  /\ closedDetected = FALSE
  /\ advances = 0
  /\ navAllAdvanced = TRUE
  /\ rs = RsIdle
  /\ cl = ClIdle
  /\ gt = GtIdle
  /\ rc = RcIdle
  /\ oc = OcIdle
  /\ pl = PlIdle
  /\ rp = RpIdle
  /\ kp = KpIdle
  /\ ev = EvIdle
  /\ ld = LdIdle
  /\ er = ErIdle
  /\ en = EnIdle
  /\ da = DaIdle
  /\ ds = DsIdle

Next ==
  \/ LoopHead
  \/ ExecWait
  \/ ExecClick
  \/ ClickFallback
  \/ ClickSettle
  \/ ClickCheck
  \/ ClickShot
  \/ ExecKeypress
  \/ KpFocus
  \/ KpPress
  \/ KpPause
  \/ KpSettle
  \/ KpProbe1
  \/ KpModal
  \/ KpProbe2
  \/ KpState
  \/ KpProbe3
  \/ KpConfirm
  \/ KpProbe4
  \/ KpShot
  \/ ExecShot
  \/ ShotTake
  \/ ExecUnknown
  \/ PostCheck
  \/ AfterAction
  \/ NavEval
  \/ NavTry
  \/ NavFallback
  \/ AdvanceSettle
  \/ ScriptReturned
  \/ PostLoopHead
  \/ PostSettle
  \/ TestGameCatch

Spec == Init /\ [][Next]_vars


(***************************************************************************)
(* Properties of the action executor (checked under Spec).                 *)
(***************************************************************************)
ActionStarts == InExecuteActions /\ pc # "exec" /\ pc' = "exec"

\* executeAction returned to executeActions without throwing
ActionReturns == InExecuteActions /\ pc # "afterAction" /\ pc' = "afterAction"

LongWaitAtExec ==
  /\ InExecuteActions /\ pc = "exec" /\ Cur.type = "wait"
  /\ WaitDuration(Cur) > 2 * ActionBudget

\* C1: executeActions compares the time since script start with
\* totalScriptBudget before it starts each action; when the budget is
\* exceeded it throws the total-timeout error instead of starting the
\* action, and after that error no action of the script is started.
C1_TotalBudgetCheckedBeforeEachAction ==
  [][ /\ (ActionStarts => pc = "loop" /\ clock <= TotalBudget)
      /\ (InExecuteActions /\ pc = "loop" /\ i < Len(actions)
            /\ clock > TotalBudget
          => pc' = "threw" /\ thrown' = ErrTotal /\ i' = i)
      /\ (pc = "threw" => pc' = "done" /\ runPhase' = "error")
      /\ (runPhase = "error" => pc' = pc /\ runPhase' = runPhase) ]_vars

C1_Witness ==
  /\ pc = "threw" /\ thrown = ErrTotal
  /\ i > 0 /\ i < Len(actions)
  /\ clock > TotalBudget

\* C2 (as claimed): whenever an action's elapsed time exceeds
\* perActionBudget, executeAction throws a timeout error; it never returns
\* normally to executeActions, which would start the next action.
C2_OverBudgetActionAlwaysTimesOut ==
  [][ActionReturns => actElapsed' <= ActionBudget]_vars

\* C3 (as claimed): a Wait action whose duration exceeds perActionBudget
\* raises the timeout error on that action (the session staying usable).
C3_LongWaitRaisesTimeout ==
  [][ LongWaitAtExec /\ browserOpen' /\ pc' # "afterAction"
      => pc' = "threw" /\ MsgIncludesTimeout(thrown') ]_vars

\* C3 (amended): a Wait action whose duration exceeds perActionBudget
\* (budget above the 1 s buffer) is shortened to perActionBudget - 1 s; the
\* timeout error is raised on it only when the shortened session wait has
\* still not returned after perActionBudget, and a wait that returns goes
\* on to the next action without an error.
C3_LongWaitIsCapped ==
  [][ /\ (LongWaitAtExec /\ ActionBudget > WaitBufferSecs
          => /\ waitRequested' = 2 * (ActionBudget - WaitBufferSecs)
             /\ (pc' = "threw"
                 => thrown' = ErrActionRace /\ actElapsed' >= ActionBudget)
             /\ (pc' = "postcheck" => actElapsed' < ActionBudget))
      /\ (InExecuteActions /\ pc = "postcheck" /\ Cur.type = "wait"
          => pc' = "afterAction" /\ thrown' = thrown) ]_vars

C3_Witness ==
  /\ InExecuteActions /\ pc = "postcheck"
  /\ Cur.type = "wait" /\ WaitDuration(Cur) > 2 * ActionBudget
  /\ waitRequested = 2 * (ActionBudget - WaitBufferSecs)
  /\ actElapsed = ActionBudget - WaitBufferSecs
  /\ i + 1 < Len(actions)
  /\ thrown = "none"

\* C4 (as claimed): the only errors that leave executeActions are timeout
\* errors.
C4_OnlyTimeoutsEscape ==
  thrown # "none" => thrown \in {ErrTotal, ErrActionExceeded, ErrActionRace}

\* C6 (as claimed): in a test run whose every navigation check finds a
\* level-complete screen and advances, the navigator has advanced exactly
\* 2 times when the run finishes.
C6_ExactlyTwoAdvancesPerRun ==
  runPhase = "finished" /\ navAllAdvanced => advances = maxLevelNavigations

\* C7: inside one executeActions call the level navigator is invoked only
\* right after an action whose zero-based index is divisible by 4, and
\* never once 2 advances have succeeded in that call.
C7_NavigatorCadenceAndCap ==
  [][ InExecuteActions /\ pc # "nav_eval" /\ pc' = "nav_eval"
      => /\ pc = "afterAction"
         /\ i % 4 = 0
         /\ levelNavigationCount < 2
         /\ i' = i ]_vars

C7_Witness ==
  /\ runPhase = "main"
  /\ levelNavigationCount = 2
  /\ i > 8
  /\ thrown = "none"


(***************************************************************************)
(* The overlay resolver: handleModalsAndDialogs and handleNestedModal.     *)
(*                                                                         *)
(* A page is the set of visible button texts, whether they sit in a        *)
(* visible modal/overlay container, and what isGamePlaying's script        *)
(* computes on it.  Every click that lands and every keypress may turn     *)
(* the page into any other page.                                           *)
(***************************************************************************)
\* One text per tier of buttonPriority.  Close (X) buttons are not part of
\* the vocabulary, so Strategy 4 finds no close entry in modalInfo.  Every
\* button is taken to carry an id or class, as modalInfo requires.
Texts == {"new game", "start new game", "got it", "play", "ok"}

Pages ==
  {[texts |-> T, modal |-> m, playing |-> p] :
     T \in {U \in SUBSET Texts : Cardinality(U) <= MaxButtons},
     m \in BOOLEAN, p \in BOOLEAN}

\* t.includes(b) on the vocabulary
TextIncludes(t, b) == t = b \/ (t = "start new game" /\ b = "new game")

\* clickByText(b, {exact: false}) finds a control
ClickFinds(page, b) == \E t \in page.texts : TextIncludes(t, b)

\* handleNestedModal: const maxDepth = 3
NestTop == 3

ROutcomes == {"ok", "fail"}

ClassOutcomes == {"ok", "fail", "timeout"}

IsGamePlayingResult_FailOpen(o, page) == IF o = "ok" THEN page.playing ELSE TRUE

\* isGamePlaying: the script's verdict, false on a rejected evaluate (catch)
\* and false when its timer wins the race
IsGamePlayingResult(o, page) == IF o = "ok" THEN page.playing ELSE FALSE

IsCommonModalButton_NoNewGame(t) == t = "got it"

\* isCommonModalButton of the detection script
IsCommonModalButton(t) ==
  TextIncludes(t, "start new game") \/ TextIncludes(t, "new game")
    \/ t = "got it"

\* modalInfo: buttons in a modal container or with a common modal text;
\* close buttons only inside a modal
ModalInfo(page) ==
  {t \in page.texts : page.modal \/ IsCommonModalButton(t)}

NoModalDetected_Never(info) == FALSE

\* if (!modalInfo || modalInfo.length === 0) return false
NoModalDetected(info) == info = {}

\* buttonPriority of handleModalsAndDialogs
ButtonPriority(t) ==
  IF TextIncludes(t, "start new game") THEN 1
  ELSE IF TextIncludes(t, "new game") THEN 2
  ELSE IF t = "got it" THEN 3
  ELSE IF t = "play" THEN 4
  ELSE IF t = "ok" THEN 5
  ELSE 999

\* priorityOrder.findIndex of handleNestedModal
NestedPriority(t) ==
  IF TextIncludes(t, "start new game") THEN 0
  ELSE IF t = "ok" THEN 4
  ELSE IF TextIncludes(t, "new game") THEN 5
  ELSE 999

FirstByButtonPriority_Any(S) == S

\* sortedButtons of handleModalsAndDialogs: what its loop may take next
\* from S (ties are left to the DOM order)
FirstByButtonPriority(S) ==
  {b \in S : \A c \in S : ButtonPriority(b) <= ButtonPriority(c)}

\* sortedButtons of handleNestedModal: what its loop may take next from S
FirstByNestedPriority(S) ==
  {b \in S : \A c \in S : NestedPriority(b) <= NestedPriority(c)}

\* normalizedText includes 'new game' and not 'start'
IsNewGameOnly(b) == TextIncludes(b, "new game") /\ b # "start new game"

SkipTexts(info) == info \cap {"got it"}

StartTexts(info) == info \cap {"play"}

GenericTexts(info) == info \cap {"ok"}

NestedGuard_OffByOne(d) == d < 0

\* handleNestedModal: if (maxDepth <= 0) return false
NestedGuard(d) == d <= 0

NoModalResult_True == "true"

\* return false; // No modal detected
NoModalResult == "false"

\* Scenario A, the 2048 flow: "New Game" -> confirmation modal ->
\* "Start New Game" -> play
ScenarioStart == [texts |-> {"new game"}, modal |-> FALSE, playing |-> FALSE]

ScenarioConfirm ==
  [texts |-> {"start new game"}, modal |-> TRUE, playing |-> FALSE]

ScenarioPlaying == [texts |-> {"new game"}, modal |-> FALSE, playing |-> TRUE]

ConfirmGame(page, t) ==
  IF page = ScenarioStart /\ t = "new game" THEN ScenarioConfirm
  ELSE IF page = ScenarioConfirm /\ t = "start new game" THEN ScenarioPlaying
  ELSE page

\* The page behaviours: "any" turns the page into any page on every
\* delivered click or key, over a session whose calls may fail; "confirm"
\* is the game of scenario A over a session whose calls succeed.
Games == {"any", "confirm"}

StartPages(game) == IF game = "any" THEN Pages ELSE {ScenarioStart}

\* the page after control t was clicked ("key": a key was delivered)
NextPages(t) ==
  IF rs.game = "any" THEN Pages ELSE {ConfirmGame(rs.page, t)}

SessionOutcomes == IF rs.game = "any" THEN ROutcomes ELSE {"ok"}

ClassifyOutcomes == IF rs.game = "any" THEN ClassOutcomes ELSE {"ok"}

\* a session call of this step may reject
Faulty == "fail" \in SessionOutcomes

\* the controls a clickByText(b, {exact: false}) may hit
Matches(page, b) == {t \in page.texts : TextIncludes(t, b)}

\* a click landed on control t and the page became np
Land(r, t, np) == [r EXCEPT !.page = np, !.landed = TRUE, !.lastAct = t]

\* a key was delivered and the page became np
KeySent(r, np) == [r EXCEPT !.page = np, !.landed = TRUE, !.keyed = TRUE]

\* Strategy 6: this.session.keypress('Escape')
Strategy6Key == "Escape"

Strategy7Key_Space == "Space"

\* Strategy 7: this.session.keypress('Enter')
Strategy7Key == "Enter"

\* the last strategy: this.session.keypress('Escape')
LastKey == "Escape"

\* a key of the keyboard fallback is handed to session.keypress
FallbackKey(r, k) == [r EXCEPT !.keys = Append(r.keys, k), !.keyed = TRUE]

RsInit(page, game) ==
  [pc |-> "r_start", game |-> game, page |-> page, info |-> {}, rem |-> {},
   btn |-> "none", lastAct |-> "none", keys |-> <<>>,
   depth |-> 0, nestClicks |-> 0, lowOp |-> FALSE, ret |-> FALSE,
   clicked |-> FALSE, keyed |-> FALSE, landed |-> FALSE,
   firstClass |-> "none",
   detectRan |-> FALSE,
   emptyStart |-> (page.texts = {} /\ ~page.modal /\ ~page.playing),
   result |-> "none"]

Fin(r, res) == [r EXCEPT !.pc = "done", !.result = res]

\* the catch inside the Strategy 1 loop: on to the next button
S1Next(r) ==
  [r EXCEPT !.rem = r.rem \ {r.btn}, !.btn = "none", !.pc = "s1_pick"]

Goto(r, where) == [r EXCEPT !.pc = where]

\* the resolver's state as a step finds it: the click the previous step
\* landed is no longer the latest
cur == [rs EXCEPT !.lastAct = "none"]

\* liveness probe of handleModalsAndDialogs
RStart ==
  /\ rs.pc = "r_start"
  /\ \E o \in SessionOutcomes :
       rs' = IF o = "ok" THEN Goto(cur, "r_classify") ELSE Fin(cur, "false")
  /\ UNCHANGED <<execVars, cl, gt, rc, oc, pl, rp, kp, ev, ld, er, en, da, ds>>

\* const alreadyPlaying = await this.isGamePlaying(2000)
RClassify ==
  /\ rs.pc = "r_classify"
  /\ \E o \in ClassifyOutcomes :
       LET fc == IF o = "ok"
                 THEN (IF rs.page.playing THEN "playing" ELSE "blocked")
                 ELSE "unknown"
           r1 == [cur EXCEPT !.firstClass = fc]
       IN rs' = IF IsGamePlayingResult(o, rs.page)
                THEN Fin(r1, "false")
                ELSE Goto(r1, "r_detect")
  /\ UNCHANGED <<execVars, cl, gt, rc, oc, pl, rp, kp, ev, ld, er, en, da, ds>>

\* the modal detection evaluate
RDetect ==
  /\ rs.pc = "r_detect"
  /\ \E o \in SessionOutcomes :
       LET r1 == [cur EXCEPT !.detectRan = TRUE]
           info == ModalInfo(rs.page)
       IN rs' = IF o # "ok" THEN Fin(r1, "false")
                ELSE IF NoModalDetected(info) THEN Fin(r1, NoModalResult)
                ELSE [r1 EXCEPT !.info = info, !.rem = info, !.pc = "s1_pick"]
  /\ UNCHANGED <<execVars, cl, gt, rc, oc, pl, rp, kp, ev, ld, er, en, da, ds>>

\* Strategy 1: clickByText on the next button of sortedButtons
S1Pick ==
  /\ rs.pc = "s1_pick"
  /\ IF rs.rem = {}
     THEN rs' = [cur EXCEPT !.rem = SkipTexts(rs.info), !.btn = "none",
                           !.pc = "s2_pick"]
     ELSE \E b \in FirstByButtonPriority(rs.rem), o \in SessionOutcomes :
            LET r1 == [cur EXCEPT !.btn = b, !.clicked = TRUE]
            IN IF o # "ok" \/ ~ClickFinds(rs.page, b)
               THEN rs' = S1Next(r1)
               ELSE \E t \in Matches(rs.page, b) : \E np \in NextPages(t) :
                      rs' = [Land(r1, t, np) EXCEPT
                               !.pc = IF IsNewGameOnly(b) THEN "s1_confirm"
                                                          ELSE "s1_nest"]
  /\ UNCHANGED <<execVars, cl, gt, rc, oc, pl, rp, kp, ev, ld, er, en, da, ds>>

EnterNested(r) ==
  [r EXCEPT !.pc = "n_enter", !.depth = NestTop, !.nestClicks = 0]

\* handleConfirmationModal clicks, in a visible modal, the button with
\* 'start new game', else one with start/confirm/yes/ok, else (last
\* fallback) the first button that is not a cancel/no
ConfirmTargets(page) ==
  IF "start new game" \in page.texts THEN {"start new game"}
  ELSE IF "ok" \in page.texts THEN {"ok"}
  ELSE page.texts

\* after "New Game": wait(2000), analyzeCurrentState, screenshot and
\* handleConfirmationModal.  Handled (state 'playing', or a confirmation
\* button clicked) goes on to the settle stage; not handled (no
\* confirmation modal, nothing to click, or an error caught inside) goes on
\* to handleNestedModal; a rejected wait(2000) goes to the loop's catch.
S1Confirm ==
  /\ rs.pc = "s1_confirm"
  /\ \/ Faulty /\ rs' = S1Next(cur)
     \/ Faulty /\ rs' = EnterNested(cur)
     \/ ~rs.page.modal /\ rs' = Goto(cur, "s1_settle")
     \/ /\ \/ ~rs.page.modal
           \/ "start new game" \notin rs.page.texts
           \/ ConfirmTargets(rs.page) = {}
        /\ rs' = EnterNested(cur)
     \/ /\ rs.page.modal
        /\ \E t \in ConfirmTargets(rs.page) : \E np \in NextPages(t) :
             \/ rs' = [Land(cur, t, np) EXCEPT !.pc = "s1_settle"]
             \/ Faulty /\ rs' = EnterNested(Land(cur, t, np))
  /\ UNCHANGED <<execVars, cl, gt, rc, oc, pl, rp, kp, ev, ld, er, en, da, ds>>

\* any other button: wait(2000), then handleNestedModal()
S1Nest ==
  /\ rs.pc = "s1_nest"
  /\ \E o \in SessionOutcomes :
       rs' = IF o = "ok" THEN EnterNested(cur) ELSE S1Next(cur)
  /\ UNCHANGED <<execVars, cl, gt, rc, oc, pl, rp, kp, ev, ld, er, en, da, ds>>

\* wait(2000), repaint, the tiles evaluate
S1Settle ==
  /\ rs.pc = "s1_settle"
  /\ \E o \in SessionOutcomes, tiles \in BOOLEAN :
       rs' = IF o # "ok" THEN S1Next(cur)
             ELSE IF tiles THEN Goto(cur, "s1_verify")
             ELSE Goto(cur, "s1_keys")
  /\ UNCHANGED <<execVars, cl, gt, rc, oc, pl, rp, kp, ev, ld, er, en, da, ds>>

\* no tiles: keypress ArrowRight, ArrowDown in a try of their own
S1Keys ==
  /\ rs.pc = "s1_keys"
  /\ \/ Faulty /\ rs' = [cur EXCEPT !.keyed = TRUE, !.pc = "s1_verify"]
     \/ \E np \in NextPages("key") :
          rs' = [KeySent(cur, np) EXCEPT !.pc = "s1_verify"]
  /\ UNCHANGED <<execVars, cl, gt, rc, oc, pl, rp, kp, ev, ld, er, en, da, ds>>

\* const isPlaying = await this.isGamePlaying(5000)
S1Verify ==
  /\ rs.pc = "s1_verify"
  /\ \E o \in ClassifyOutcomes :
       rs' = IF IsGamePlayingResult(o, rs.page)
             THEN Fin(cur, "true") ELSE Goto(cur, "s1_key2")
  /\ UNCHANGED <<execVars, cl, gt, rc, oc, pl, rp, kp, ev, ld, er, en, da, ds>>

\* one more ArrowDown, wait, isGamePlaying, in a try of their own
S1Key2 ==
  /\ rs.pc = "s1_key2"
  /\ \/ Faulty /\ rs' = [cur EXCEPT !.keyed = TRUE, !.pc = "s1_final"]
     \/ \E np \in NextPages("key"), c \in ClassifyOutcomes :
          rs' = IF IsGamePlayingResult(c, np)
                THEN Fin(KeySent(cur, np), "true")
                ELSE [KeySent(cur, np) EXCEPT !.pc = "s1_final"]
  /\ UNCHANGED <<execVars, cl, gt, rc, oc, pl, rp, kp, ev, ld, er, en, da, ds>>

\* wait(1500), final isGamePlaying
S1Final ==
  /\ rs.pc = "s1_final"
  /\ \E o \in SessionOutcomes, c \in ClassifyOutcomes :
       rs' = IF o # "ok" THEN S1Next(cur)
             ELSE IF IsGamePlayingResult(c, rs.page) THEN Fin(cur, "true")
             ELSE S1Next(cur)
  /\ UNCHANGED <<execVars, cl, gt, rc, oc, pl, rp, kp, ev, ld, er, en, da, ds>>


\* Strategy 2: skip-like buttons; a click that lands returns true
S2Pick ==
  /\ rs.pc = "s2_pick"
  /\ IF rs.rem = {}
     THEN rs' = [cur EXCEPT !.rem = StartTexts(rs.info), !.pc = "s3_pick"]
     ELSE \E b \in rs.rem, o \in SessionOutcomes, w \in SessionOutcomes :
            LET r1 == [cur EXCEPT !.clicked = TRUE, !.rem = rs.rem \ {b}]
            IN IF o # "ok" \/ ~ClickFinds(rs.page, b)
               THEN rs' = r1
               ELSE \E t \in Matches(rs.page, b) : \E np \in NextPages(t) :
                      rs' = IF w = "ok" THEN Fin(Land(r1, t, np), "true")
                            ELSE Land(r1, t, np)
  /\ UNCHANGED <<execVars, cl, gt, rc, oc, pl, rp, kp, ev, ld, er, en, da, ds>>

\* Strategy 3: play/start buttons; true only when isGamePlaying says so
S3Pick ==
  /\ rs.pc = "s3_pick"
  /\ IF rs.rem = {}
     THEN rs' = Goto(cur, "s4_close")
     ELSE \E b \in rs.rem :
            LET r1 == [cur EXCEPT !.clicked = TRUE, !.rem = rs.rem \ {b}]
            IN \/ (Faulty \/ ~ClickFinds(rs.page, b)) /\ rs' = r1
               \/ \E t \in Matches(rs.page, b) : \E np \in NextPages(t) :
                    \E c \in ClassifyOutcomes :
                       rs' = IF IsGamePlayingResult(c, np)
                             THEN Fin(Land(r1, t, np), "true")
                             ELSE Land(r1, t, np)
  /\ UNCHANGED <<execVars, cl, gt, rc, oc, pl, rp, kp, ev, ld, er, en, da, ds>>

\* Strategy 4: the close button, clicked through evaluate by its selector
S4Close ==
  /\ rs.pc = "s4_close"
  /\ IF "close" \notin rs.info
     THEN rs' = [cur EXCEPT !.rem = GenericTexts(rs.info), !.pc = "s5_pick"]
     ELSE \E o \in SessionOutcomes, w \in SessionOutcomes :
            LET r1 == [cur EXCEPT !.clicked = TRUE,
                                 !.rem = GenericTexts(rs.info),
                                 !.pc = "s5_pick"]
            IN IF o # "ok" \/ "close" \notin rs.page.texts
               THEN rs' = r1
               ELSE \E t \in Matches(rs.page, "close") : \E np \in NextPages(t) :
                      rs' = IF w = "ok" THEN Fin(Land(r1, t, np), "true")
                            ELSE Land(r1, t, np)
  /\ UNCHANGED <<execVars, cl, gt, rc, oc, pl, rp, kp, ev, ld, er, en, da, ds>>

\* Strategy 5: generic action buttons; a click that lands returns true
S5Pick ==
  /\ rs.pc = "s5_pick"
  /\ IF rs.rem = {}
     THEN rs' = Goto(cur, "s6_escape")
     ELSE \E b \in rs.rem, o \in SessionOutcomes, w \in SessionOutcomes :
            LET r1 == [cur EXCEPT !.clicked = TRUE, !.rem = rs.rem \ {b}]
            IN IF o # "ok" \/ ~ClickFinds(rs.page, b)
               THEN rs' = r1
               ELSE \E t \in Matches(rs.page, b) : \E np \in NextPages(t) :
                      rs' = IF w = "ok" THEN Fin(Land(r1, t, np), "true")
                            ELSE Land(r1, t, np)
  /\ UNCHANGED <<execVars, cl, gt, rc, oc, pl, rp, kp, ev, ld, er, en, da, ds>>

\* Strategy 6: keypress Escape, wait, the stillOpen evaluate
S6Escape ==
  /\ rs.pc = "s6_escape"
  /\ \/ Faulty /\ rs' = [FallbackKey(cur, Strategy6Key) EXCEPT !.pc = "s7_enter"]
     \/ \E np \in NextPages("key"), o \in SessionOutcomes :
          LET r1 == KeySent(FallbackKey(cur, Strategy6Key), np) IN
          rs' = IF o = "ok" /\ ~np.modal
                THEN Fin(r1, "true")
                ELSE [r1 EXCEPT !.pc = "s7_enter"]
  /\ UNCHANGED <<execVars, cl, gt, rc, oc, pl, rp, kp, ev, ld, er, en, da, ds>>

\* Strategy 7: keypress Enter, wait(800), return true
S7Enter ==
  /\ rs.pc = "s7_enter"
  /\ \/ Faulty /\ rs' = [FallbackKey(cur, Strategy7Key) EXCEPT !.pc = "s8_escape"]
     \/ \E np \in NextPages("key"), w \in SessionOutcomes :
          LET r1 == KeySent(FallbackKey(cur, Strategy7Key), np) IN
          rs' = IF w = "ok" THEN Fin(r1, "true")
                ELSE [r1 EXCEPT !.pc = "s8_escape"]
  /\ UNCHANGED <<execVars, cl, gt, rc, oc, pl, rp, kp, ev, ld, er, en, da, ds>>

\* the last keypress Escape, wait(800), return true; false when it throws
S8Escape ==
  /\ rs.pc = "s8_escape"
  /\ \/ Faulty /\ rs' = Fin(FallbackKey(cur, LastKey), "false")
     \/ \E np \in NextPages("key"), w \in SessionOutcomes :
          rs' = Fin(KeySent(FallbackKey(cur, LastKey), np),
                    IF w = "ok" THEN "true" ELSE "false")
  /\ UNCHANGED <<execVars, cl, gt, rc, oc, pl, rp, kp, ev, ld, er, en, da, ds>>

\* a session operation issued by the handleNestedModal frame in control;
\* lowOp records one issued by a frame whose maxDepth is 0 or less
SessionOp(r) == [r EXCEPT !.lowOp = r.lowOp \/ r.depth <= 0]

\* a handleNestedModal frame returns r to its caller
NestReturn(r0, r) == [r0 EXCEPT !.pc = "n_ret", !.ret = r]

\* handleNestedModal(maxDepth): the guard, then the hasNewModal evaluate
NEnter ==
  /\ rs.pc = "n_enter"
  /\ IF NestedGuard(rs.depth)
     THEN rs' = NestReturn(cur, FALSE)
     ELSE \E o \in SessionOutcomes :
            LET r1 == SessionOp(cur) IN
            rs' = IF o # "ok" THEN NestReturn(r1, FALSE)
                  ELSE IF rs.page.modal /\ rs.page.texts # {}
                  THEN Goto(r1, "n_list")
                  ELSE NestReturn(r1, FALSE)
  /\ UNCHANGED <<execVars, cl, gt, rc, oc, pl, rp, kp, ev, ld, er, en, da, ds>>

\* wait(1000), then the modalButtons evaluate
NList ==
  /\ rs.pc = "n_list"
  /\ \E w \in SessionOutcomes, o \in SessionOutcomes :
       LET r1 == SessionOp(cur)
           mb == IF rs.page.modal THEN rs.page.texts ELSE {}
       IN rs' = IF w # "ok" \/ o # "ok" \/ mb = {}
                THEN NestReturn(r1, FALSE)
                ELSE Goto(r1, "n_click")
  /\ UNCHANGED <<execVars, cl, gt, rc, oc, pl, rp, kp, ev, ld, er, en, da, ds>>

\* clickByText on the first sorted button; after a click that lands,
\* wait(2000) and recurse with maxDepth - 1
NClick ==
  /\ rs.pc = "n_click"
  /\ \E b \in FirstByNestedPriority(rs.page.texts) :
       LET r1 == [SessionOp(cur) EXCEPT !.clicked = TRUE]
       IN \/ Faulty /\ rs' = NestReturn(r1, FALSE)
          \/ \E t \in Matches(rs.page, b) : \E np \in NextPages(t) :
             \E w \in SessionOutcomes :
               LET r2 == [Land(r1, t, np) EXCEPT
                            !.nestClicks = rs.nestClicks + 1]
               IN rs' = IF w = "ok"
                        THEN [r2 EXCEPT !.depth = rs.depth - 1,
                                        !.pc = "n_enter"]
                        ELSE NestReturn(r2, FALSE)
  /\ UNCHANGED <<execVars, cl, gt, rc, oc, pl, rp, kp, ev, ld, er, en, da, ds>>

\* a frame returned: the top frame hands back to handleModalsAndDialogs;
\* a recursive call's caller returns true after its own click, checking
\* isGamePlaying(3000) when the deeper call found nothing
NRet ==
  /\ rs.pc = "n_ret"
  /\ IF rs.depth = NestTop
     THEN rs' = [cur EXCEPT !.pc = "s1_settle", !.depth = 0, !.ret = FALSE,
                           !.nestClicks = 0]
     ELSE rs' = [cur EXCEPT !.depth = rs.depth + 1, !.ret = TRUE]
  /\ UNCHANGED <<execVars, cl, gt, rc, oc, pl, rp, kp, ev, ld, er, en, da, ds>>

\* the resolver is called again on whatever page is then showing
RAgain ==
  /\ rs.pc = "done"
  /\ \E p \in StartPages(rs.game) : rs' = RsInit(p, rs.game)
  /\ UNCHANGED <<execVars, cl, gt, rc, oc, pl, rp, kp, ev, ld, er, en, da, ds>>

InitResolver ==
  /\ runPhase = "idle"
  /\ actions = <<>>
  /\ i = 0
  /\ pc = "done"
  /\ clock = 0
  /\ actElapsed = 0
  /\ levelNavigationCount = 0
  /\ postI = 0
  /\ thrown = "none"
  /\ browserOpen = TRUE
  /\ kpN = 0
  /\ navK = 0
  /\ navButtons = FALSE
  /\ navClicks = 0
  /\ clickAtCap = FALSE
  /\ waitRequested = 0
  /\ clickDelivered = FALSE
  /\ closedDetected = FALSE
  /\ navAllAdvanced = TRUE
  /\ advances = 0
  /\ cl = ClIdle
  /\ gt = GtIdle
  /\ rc = RcIdle
  /\ oc = OcIdle
  /\ pl = PlIdle
  /\ rp = RpIdle
  /\ kp = KpIdle
  /\ ev = EvIdle
  /\ ld = LdIdle
  /\ er = ErIdle
  /\ en = EnIdle
  /\ da = DaIdle
  /\ ds = DsIdle
  /\ \E g \in Games : \E p \in StartPages(g) : rs = RsInit(p, g)

NextResolver ==
  \/ RStart
  \/ RClassify
  \/ RDetect
  \/ S1Pick
  \/ S1Confirm
  \/ S1Nest
  \/ S1Settle
  \/ S1Keys
  \/ S1Verify
  \/ S1Key2
  \/ S1Final
  \/ S2Pick
  \/ S3Pick
  \/ S4Close
  \/ S5Pick
  \/ S6Escape
  \/ S7Enter
  \/ S8Escape
  \/ NEnter
  \/ NList
  \/ NClick
  \/ NRet
  \/ RAgain

SpecResolver == InitResolver /\ [][NextResolver]_vars


\* C5: one top-level nested-overlay resolution (maxDepth 3) never recurses
\* below depth 0, lands at most 3 clicks whatever the page shows after each
\* click, and issues session operations only from frames of depth 1 to 3; a
\* call with depth 0 returns false at once, the page, the click count and
\* the interaction record left as they were.
C5_NestedModalBounded ==
  [][ /\ rs'.depth \in 0..NestTop
      /\ rs'.nestClicks <= NestTop
      /\ ~rs'.lowOp
      /\ (rs.pc = "n_enter" /\ rs.depth = 0
            => /\ rs'.pc = "n_ret"
               /\ rs'.ret = FALSE
               /\ rs'.nestClicks = rs.nestClicks
               /\ rs'.page = rs.page
               /\ rs'.clicked = rs.clicked
               /\ rs'.keyed = rs.keyed) ]_vars

\* C5 witness: three clicks have landed, each followed by a new overlay, and
\* the call with depth 0 has returned false.
C5_Witness ==
  /\ rs.pc = "n_ret"
  /\ rs.depth = 0
  /\ rs.nestClicks = NestTop
  /\ rs.ret = FALSE

C10_EmptyPageNoInteraction ==
  rs.emptyStart
    => /\ ~rs.clicked
       /\ ~rs.keyed
       /\ rs.pc = "done" => rs.result = "false"

\* C10 witness: on such a page the classification saw "not playing", the
\* detection ran and the resolver returned.
C10_Witness ==
  /\ rs.emptyStart
  /\ rs.firstClass = "blocked"
  /\ rs.detectRan
  /\ rs.pc = "done"

(***************************************************************************)
(* The classifier: isGamePlaying.                                          *)
(*                                                                         *)
(* A page is described by what the classification script looks at: a       *)
(* score/counter element with a non-zero text, the canvas, a board or tile *)
(* with visible content, and a visible modal with a tutorial-like button.  *)
(***************************************************************************)
\* none: no canvas; blank: 2d canvas, sampled region transparent; drawn: a
\* sampled pixel has alpha > 0; webgl: getContext('2d') gives null;
\* tainted: getImageData throws
CanvasKinds == {"none", "blank", "drawn", "webgl", "tainted"}

Signals ==
  [score : BOOLEAN, canvas : CanvasKinds, board : BOOLEAN, tutorial : BOOLEAN]

GameStateScript_Stateful(sig) ==
  IF cl.prevHow = "ok" THEN ~cl.prevResult ELSE TRUE

\* the script evaluated in the page by isGamePlaying
GameStateScript(sig) ==
  IF sig.canvas = "drawn" THEN TRUE
  ELSE IF sig.canvas = "tainted" THEN TRUE
  ELSE (sig.score \/ sig.board) /\ ~sig.tutorial

\* prevHow, prevResult: how the previous call ended and what it returned;
\* samePage: this call looks at the page of the previous call, unchanged
ClInit(sig) ==
  [pc |-> "probe", sig |-> sig, how |-> "none", result |-> FALSE,
   prevHow |-> "none", prevResult |-> FALSE, samePage |-> FALSE]

ClReturn(how, res) == [cl EXCEPT !.pc = "done", !.how = how, !.result = res]

\* the liveness probe, awaited without a timer: a closed session returns
\* false, any other rejection is rethrown into the outer catch, which
\* returns false; while the call does not settle the classifier waits
ClProbe ==
  /\ cl.pc = "probe"
  /\ \E o \in {"ok", "fail", "closed", "never"} :
       cl' = IF o = "ok" THEN [cl EXCEPT !.pc = "evaluate"]
             ELSE IF o = "never" THEN [cl EXCEPT !.pc = "waiting"]
             ELSE ClReturn(o, FALSE)
  /\ UNCHANGED <<execVars, rs, gt, rc, oc, pl, rp, kp, ev, ld, er, en, da, ds>>

\* Promise.race of the script against a timer that resolves false (also
\* when the evaluate never settles); a rejected evaluate is caught and
\* false returned
ClEvaluate ==
  /\ cl.pc = "evaluate"
  /\ \E o \in {"ok", "fail", "timeout"} :
       cl' = IF o = "ok" THEN ClReturn("ok", GameStateScript(cl.sig))
             ELSE ClReturn(o, FALSE)
  /\ UNCHANGED <<execVars, rs, gt, rc, oc, pl, rp, kp, ev, ld, er, en, da, ds>>

\* the next call, on the same page or on another one
ClAgain ==
  /\ cl.pc = "done"
  /\ \E sig \in Signals :
       cl' = [ClInit(sig) EXCEPT !.prevHow = cl.how,
                                 !.prevResult = cl.result,
                                 !.samePage = (sig = cl.sig)]
  /\ UNCHANGED <<execVars, rs, gt, rc, oc, pl, rp, kp, ev, ld, er, en, da, ds>>

InitClassify ==
  /\ runPhase = "idle"
  /\ actions = <<>>
  /\ i = 0
  /\ pc = "done"
  /\ clock = 0
  /\ actElapsed = 0
  /\ levelNavigationCount = 0
  /\ postI = 0
  /\ thrown = "none"
  /\ browserOpen = TRUE
  /\ kpN = 0
  /\ navK = 0
  /\ navButtons = FALSE
  /\ navClicks = 0
  /\ clickAtCap = FALSE
  /\ waitRequested = 0
  /\ clickDelivered = FALSE
  /\ closedDetected = FALSE
  /\ navAllAdvanced = TRUE
  /\ advances = 0
  /\ rs = RsIdle
  /\ gt = GtIdle
  /\ rc = RcIdle
  /\ oc = OcIdle
  /\ pl = PlIdle
  /\ rp = RpIdle
  /\ kp = KpIdle
  /\ ev = EvIdle
  /\ ld = LdIdle
  /\ er = ErIdle
  /\ en = EnIdle
  /\ da = DaIdle
  /\ ds = DsIdle
  /\ \E sig \in Signals : cl = ClInit(sig)

NextClassify ==
  \/ ClProbe
  \/ ClEvaluate
  \/ ClAgain

SpecClassify == InitClassify /\ [][NextClassify]_vars

\* C9: whenever the classification script has run to completion, the
\* classifier returns true exactly when a score signal or a board/tile
\* signal is present and no visible overlay carries a tutorial button.
C9_PlayingIffSignalAndNoTutorial ==
  cl.pc = "done" /\ cl.how = "ok"
    => (cl.result <=> (cl.sig.score \/ cl.sig.board) /\ ~cl.sig.tutorial)

\* C11 (as stated): the resolver returns true only if, when it returns, the
\* state is Playing or the page shows no overlay.
C11_TrueMeansPlayingOrNoOverlay ==
  rs.pc = "done" /\ rs.result = "true"
    => rs.page.playing \/ (~rs.page.modal /\ ModalInfo(rs.page) = {})

\* C11 (amended): the resolver returns true only if it detected an overlay
\* button and a click of its own landed or a key of its own was delivered;
\* when no overlay is found it returns false.
C11_TrueMeansDismissalDelivered ==
  rs.pc = "done" /\ rs.result = "true" => rs.info # {} /\ rs.landed

\* C11 witness: the resolver returned true after a delivered dismissal while
\* the page still shows an overlay with buttons and the game is not playing.
C11_Witness ==
  /\ rs.pc = "done"
  /\ rs.result = "true"
  /\ rs.landed
  /\ ~rs.page.playing
  /\ rs.page.modal
  /\ rs.page.texts # {}

\* the page behaviour of scenario A
C12_InScenario == rs.game = "confirm"

\* a finished run in scenario A returned true on the playing page
C12_EndsPlaying ==
  C12_InScenario /\ rs.pc = "done"
    => /\ rs.result = "true"
       /\ rs.page = ScenarioPlaying
       /\ IsGamePlayingResult("ok", rs.page)

\* the steps of scenario A click "New Game", then "Start New Game"
C12_ClicksInOrder ==
  C12_InScenario /\ rs'.game = rs.game =>
    /\ ~rs.landed /\ rs'.landed => rs'.lastAct = "new game"
    /\ rs.page = ScenarioStart /\ rs'.page = ScenarioConfirm
         => rs'.lastAct = "new game"
    /\ rs.page = ScenarioConfirm /\ rs'.page = ScenarioPlaying
         => rs'.lastAct = "start new game"
    /\ rs'.page = ScenarioPlaying => rs.page # ScenarioStart

C13_ClaimTier(t) ==
  IF t = "start new game" THEN 1
  ELSE IF t = "got it" THEN 2
  ELSE IF t = "play" THEN 3
  ELSE 4

\* controls the specified tiers rank ("new game" itself is in no tier)
C13_Tiered(S) == S \ {"new game"}

\* c has certainly not been tried in this run: the nested handler is about
\* to make the run's second click, and c was not a detected candidate
C13_UntriedAtFirstNestedClick(c) ==
  /\ c \notin rs.info /\ rs.rem = rs.info
  /\ ~IsNewGameOnly(rs.btn) /\ rs.depth = NestTop

\* a click that lands in the main loop is on a control ranked, by the
\* loop's buttonPriority, no worse than any untried detected candidate
C13_MainLoopStep ==
  rs.pc = "s1_pick" /\ rs'.lastAct # "none" =>
    \A c \in rs.rem : ButtonPriority(rs'.lastAct) <= ButtonPriority(c)

\* a click that lands in the nested handler is on a control ranked, by
\* the handler's priorityOrder, no worse than any button of the modal
C13_NestedStep ==
  rs.pc = "n_click" /\ rs'.lastAct # "none" =>
    \A c \in rs.page.texts : NestedPriority(rs'.lastAct) <= NestedPriority(c)

C14_IsPrefix(q, full) == Len(q) <= Len(full) /\ q = SubSeq(full, 1, Len(q))

\* C14 (as the code has it): the keyboard fallback hands the session
\* Escape, then Enter, then Escape again (the last only when the Enter
\* step failed); a run that returns true right after the first Escape has
\* seen no modal still open, and no key is followed by a classification.
C14_EscapeEnterEscape ==
  /\ C14_IsPrefix(rs.keys, <<"Escape", "Enter", "Escape">>)
  /\ rs.keys # <<>> => rs.pc \in {"s7_enter", "s8_escape", "done"}
  /\ rs.pc = "done" /\ rs.result = "true" /\ rs.keys = <<"Escape">>
       => ~rs.page.modal
  /\ rs.pc = "done" /\ Len(rs.keys) = 3 => rs.game = "any"

\* C14 (as stated): the fallback sends Escape, then Enter, then Space, and
\* re-classifies after each key, so that it reports success only on Playing.
C14_EscapeEnterSpaceReclassified ==
  /\ C14_IsPrefix(rs.keys, <<"Escape", "Enter", "Space">>)
  /\ rs.pc = "done" /\ rs.result = "true" /\ rs.keys # <<>>
       => rs.page.playing

\* the fallback returned true right after Enter with the modal still open
C14_Witness ==
  /\ rs.pc = "done" /\ rs.result = "true" /\ rs.keys = <<"Escape", "Enter">>
  /\ rs.page.modal /\ ~rs.page.playing /\ rs.keyed

(***************************************************************************)
(* The gatekeeper handlers: the setup of QAAgent.testGame before the first *)
(* call of handleModalsAndDialogs, and handleSelectionScreen, which the    *)
(* executor and ensureGameIsPlaying call later in the run.                 *)
(*                                                                         *)
(* The page, as these handlers see it: the consent overlay showing         *)
(* (OneTrust, or a banner with a cookie / consent id or class), whether it *)
(* offers an "I agree" control, whether the body text holds one of         *)
(* 'accept all cookies' / 'cookie settings' / 'privacy policy', and        *)
(* whether the page is a selection screen with clickable options.          *)
(***************************************************************************)
GatePages ==
  [consent : {"none", "onetrust", "banner"}, agree : BOOLEAN,
   policyText : BOOLEAN, selection : BOOLEAN]

\* the handlers testGame calls before handleModalsAndDialogs
Gatekeepers == {"iframe", "consent", "ads", "listing", "age", "fullscreen"}

\* consentInfo.hasModal of handleCookieConsent
ConsentDetected(page) == page.consent # "none" \/ page.policyText

\* hasCookieConsent of handleSelectionScreen
HasCookieConsent(page) == page.consent # "none" \/ page.policyText

\* stillHasCookie of handleSelectionScreen: only #onetrust-consent-sdk
StillHasCookie(page) == page.consent = "onetrust"

\* what a click on the accept control, or the OneTrust script, may leave
AfterAccept(page) == {page, [page EXCEPT !.consent = "none"]}

\* handleCookieConsent on a page: its return value and the page it leaves.
\* OneTrust is accepted or hidden by script, and otherwise the first accept
\* button is clicked, by id or by text, and true returned; a rejected
\* session call is caught and false returned, before or after the click;
\* with nothing to accept the handler returns false.
ConsentRuns(page) ==
  IF page.consent = "onetrust" \/ (ConsentDetected(page) /\ page.agree)
  THEN [handled : BOOLEAN, page : AfterAccept(page)]
  ELSE {[handled |-> FALSE, page |-> page]}

GtInit(page) ==
  [pc |-> "iframe", page |-> page, invoked |-> {},
   cookieConsentHandled |-> FALSE, resolverCalled |-> FALSE,
   selected |-> FALSE, consentAtSelect |-> FALSE, ret |-> "none"]

\* a handler of the setup is called inside its own try / catch
Invoke(g, h, next) ==
  [g EXCEPT !.invoked = g.invoked \cup {h}, !.pc = next]

\* handleIframeGame
GIframe ==
  /\ gt.pc = "iframe"
  /\ gt' = Invoke(gt, "iframe", "consent")
  /\ UNCHANGED <<execVars, rs, cl, rc, oc, pl, rp, kp, ev, ld, er, en, da, ds>>

\* cookieConsentHandled = await handleCookieConsent()
GConsent ==
  /\ gt.pc = "consent"
  /\ \E r \in ConsentRuns(gt.page) :
       gt' = [Invoke(gt, "consent", IF r.handled THEN "consent_wait" ELSE "ads")
                EXCEPT !.page = r.page, !.cookieConsentHandled = r.handled]
  /\ UNCHANGED <<execVars, rs, cl, rc, oc, pl, rp, kp, ev, ld, er, en, da, ds>>

\* consent handled: wait(1500), then handleGameListingPage in a try of its
\* own; a rejected wait leaves for the outer catch
GConsentWait ==
  /\ gt.pc = "consent_wait"
  /\ \E o \in ROutcomes :
       gt' = IF o = "ok" THEN Invoke(gt, "listing", "ads")
             ELSE [gt EXCEPT !.pc = "ads"]
  /\ UNCHANGED <<execVars, rs, cl, rc, oc, pl, rp, kp, ev, ld, er, en, da, ds>>

\* handleAds
GAds ==
  /\ gt.pc = "ads"
  /\ gt' = Invoke(gt, "ads", "listing")
  /\ UNCHANGED <<execVars, rs, cl, rc, oc, pl, rp, kp, ev, ld, er, en, da, ds>>

\* if (!cookieConsentHandled) handleGameListingPage
GListing ==
  /\ gt.pc = "listing"
  /\ gt' = IF ~gt.cookieConsentHandled THEN Invoke(gt, "listing", "age")
           ELSE [gt EXCEPT !.pc = "age"]
  /\ UNCHANGED <<execVars, rs, cl, rc, oc, pl, rp, kp, ev, ld, er, en, da, ds>>

\* handleAgeVerification
GAge ==
  /\ gt.pc = "age"
  /\ gt' = Invoke(gt, "age", "fullscreen")
  /\ UNCHANGED <<execVars, rs, cl, rc, oc, pl, rp, kp, ev, ld, er, en, da, ds>>

\* handleFullscreenRequest
GFullscreen ==
  /\ gt.pc = "fullscreen"
  /\ gt' = Invoke(gt, "fullscreen", "modals")
  /\ UNCHANGED <<execVars, rs, cl, rc, oc, pl, rp, kp, ev, ld, er, en, da, ds>>

\* the first handleModalsAndDialogs of the run; the script then goes on
\* and the page becomes whatever the game shows next
GModals ==
  /\ gt.pc = "modals"
  /\ \E np \in GatePages :
       gt' = [gt EXCEPT !.resolverCalled = TRUE, !.page = np,
                        !.pc = "sel_start"]
  /\ UNCHANGED <<execVars, rs, cl, rc, oc, pl, rp, kp, ev, ld, er, en, da, ds>>

SelReturn(g, res) == [g EXCEPT !.pc = "sel_done", !.ret = res]

\* handleSelectionScreen: the hasCookieConsent evaluate
SelStart ==
  /\ gt.pc = "sel_start"
  /\ \E o \in ROutcomes :
       gt' = IF o # "ok" THEN SelReturn(gt, "false")
             ELSE IF HasCookieConsent(gt.page)
             THEN [gt EXCEPT !.pc = "sel_consent"]
             ELSE [gt EXCEPT !.pc = "sel_detect"]
  /\ UNCHANGED <<execVars, rs, cl, rc, oc, pl, rp, kp, ev, ld, er, en, da, ds>>

\* handleCookieConsent first; handled: wait(2000) and the stillHasCookie
\* evaluate; not handled, or still blocking: return false
SelConsent ==
  /\ gt.pc = "sel_consent"
  /\ \E r \in ConsentRuns(gt.page), o \in ROutcomes :
       LET g1 == [gt EXCEPT !.page = r.page] IN
       gt' = IF ~r.handled \/ o # "ok" \/ StillHasCookie(r.page)
             THEN SelReturn(g1, "false")
             ELSE [g1 EXCEPT !.pc = "sel_detect"]
  /\ UNCHANGED <<execVars, rs, cl, rc, oc, pl, rp, kp, ev, ld, er, en, da, ds>>

\* the isSelectionScreen evaluate (false on the three consent phrases) and
\* the options evaluate
SelDetect ==
  /\ gt.pc = "sel_detect"
  /\ \E o \in ROutcomes :
       gt' = IF o # "ok" \/ gt.page.policyText \/ ~gt.page.selection
             THEN SelReturn(gt, "false")
             ELSE [gt EXCEPT !.pc = "sel_click"]
  /\ UNCHANGED <<execVars, rs, cl, rc, oc, pl, rp, kp, ev, ld, er, en, da, ds>>

\* the chosen option is clicked (coordinates, selector, text or DOM click);
\* after a click the handler returns true
SelClick ==
  /\ gt.pc = "sel_click"
  /\ \/ gt' = SelReturn(gt, "false")
     \/ \E np \in GatePages :
          gt' = [SelReturn(gt, "true") EXCEPT
                   !.selected = TRUE,
                   !.consentAtSelect = gt.page.consent # "none",
                   !.page = np]
  /\ UNCHANGED <<execVars, rs, cl, rc, oc, pl, rp, kp, ev, ld, er, en, da, ds>>

\* the next call of handleSelectionScreen, on the page then showing
SelAgain ==
  /\ gt.pc = "sel_done"
  /\ \E np \in GatePages :
       gt' = [gt EXCEPT !.pc = "sel_start", !.page = np, !.ret = "none",
                        !.selected = FALSE, !.consentAtSelect = FALSE]
  /\ UNCHANGED <<execVars, rs, cl, rc, oc, pl, rp, kp, ev, ld, er, en, da, ds>>

InitGate ==
  /\ runPhase = "idle"
  /\ actions = <<>>
  /\ i = 0
  /\ pc = "done"
  /\ clock = 0
  /\ actElapsed = 0
  /\ levelNavigationCount = 0
  /\ postI = 0
  /\ thrown = "none"
  /\ browserOpen = TRUE
  /\ kpN = 0
  /\ navK = 0
  /\ navButtons = FALSE
  /\ navClicks = 0
  /\ clickAtCap = FALSE
  /\ waitRequested = 0
  /\ clickDelivered = FALSE
  /\ closedDetected = FALSE
  /\ navAllAdvanced = TRUE
  /\ advances = 0
  /\ rs = RsIdle
  /\ cl = ClIdle
  /\ rc = RcIdle
  /\ oc = OcIdle
  /\ pl = PlIdle
  /\ rp = RpIdle
  /\ kp = KpIdle
  /\ ev = EvIdle
  /\ ld = LdIdle
  /\ er = ErIdle
  /\ en = EnIdle
  /\ da = DaIdle
  /\ ds = DsIdle
  /\ \E p \in GatePages : gt = GtInit(p)

NextGate ==
  \/ GIframe
  \/ GConsent
  \/ GConsentWait
  \/ GAds
  \/ GListing
  \/ GAge
  \/ GFullscreen
  \/ GModals
  \/ SelStart
  \/ SelConsent
  \/ SelDetect
  \/ SelClick
  \/ SelAgain

SpecGate == InitGate /\ [][NextGate]_vars

\* C15: when testGame first calls the overlay resolver, every gatekeeper
\* handler (iframe, consent, ads, listing page, age gate, fullscreen) has
\* been invoked.
C15_GatekeepersBeforeResolver ==
  gt.pc = "modals" => gt.invoked = Gatekeepers

\* C16: handleSelectionScreen never activates a selection option while a
\* consent overlay is present.
C16_NoSelectionUnderConsent ==
  gt.pc = "sel_done" /\ gt.selected => ~gt.consentAtSelect

(***************************************************************************)
(* The executor and the steps it abandons.  Before the script, and after   *)
(* each keypress action, the game state is checked; when the game is not   *)
(* playing, ensureGameIsPlaying is started and raced against a timer       *)
(* (8 s in testGame, 5 s in executeAction).  The timer does not stop       *)
(* ensureGameIsPlaying: it goes on clicking skip / start buttons and       *)
(* pressing Escape, Space and Enter until it returns by itself.            *)
(* Entry 0 of rc.ens is the call made by testGame before the script,       *)
(* entry k the call made by the k-th action.                               *)
(***************************************************************************)
RaceActions == 3

RcInit ==
  [pc |-> "check", i |-> 0, ens |-> [k \in 0..RaceActions |-> "none"],
   stray |-> FALSE]

\* isGamePlaying: playing, the executor goes on; not playing,
\* ensureGameIsPlaying(2) is started inside Promise.race
RcCheck ==
  /\ rc.pc = "check"
  /\ \/ rc' = [rc EXCEPT !.pc = "between"]
     \/ rc' = [rc EXCEPT !.pc = "race", !.ens[rc.i] = "running"]
  /\ UNCHANGED <<execVars, rs, cl, gt, oc, pl, rp, kp, ev, ld, er, en, da, ds>>

\* a running ensureGameIsPlaying delivers its next click or keypress; it
\* is a stray one when a later action has started meanwhile
RcEnsureInput ==
  /\ \E k \in 0..RaceActions :
       /\ rc.ens[k] = "running"
       /\ rc' = [rc EXCEPT !.stray = rc.stray \/ k < rc.i]
  /\ UNCHANGED <<execVars, rs, cl, gt, oc, pl, rp, kp, ev, ld, er, en, da, ds>>

\* ensureGameIsPlaying returns; a race still waiting for it is settled
RcEnsureReturn ==
  /\ \E k \in 0..RaceActions :
       /\ rc.ens[k] = "running"
       /\ rc' = [rc EXCEPT !.ens[k] = "returned",
                           !.pc = IF k = rc.i /\ rc.pc = "race"
                                  THEN "between" ELSE rc.pc]
  /\ UNCHANGED <<execVars, rs, cl, gt, oc, pl, rp, kp, ev, ld, er, en, da, ds>>

\* the timer of the race resolves first: the executor goes on
RcTimer ==
  /\ rc.pc = "race" /\ rc.ens[rc.i] = "running"
  /\ rc' = [rc EXCEPT !.pc = "between"]
  /\ UNCHANGED <<execVars, rs, cl, gt, oc, pl, rp, kp, ev, ld, er, en, da, ds>>

\* executeActions starts the next keypress action, which delivers its keys
\* and comes to its own game state check
RcAction ==
  /\ rc.pc = "between" /\ rc.i < RaceActions
  /\ rc' = [rc EXCEPT !.i = rc.i + 1, !.pc = "check"]
  /\ UNCHANGED <<execVars, rs, cl, gt, oc, pl, rp, kp, ev, ld, er, en, da, ds>>

InitRace ==
  /\ runPhase = "idle"
  /\ actions = <<>>
  /\ i = 0
  /\ pc = "done"
  /\ clock = 0
  /\ actElapsed = 0
  /\ levelNavigationCount = 0
  /\ postI = 0
  /\ thrown = "none"
  /\ browserOpen = TRUE
  /\ kpN = 0
  /\ navK = 0
  /\ navButtons = FALSE
  /\ navClicks = 0
  /\ clickAtCap = FALSE
  /\ waitRequested = 0
  /\ clickDelivered = FALSE
  /\ closedDetected = FALSE
  /\ navAllAdvanced = TRUE
  /\ advances = 0
  /\ rs = RsIdle
  /\ cl = ClIdle
  /\ gt = GtIdle
  /\ oc = OcIdle
  /\ pl = PlIdle
  /\ rp = RpIdle
  /\ kp = KpIdle
  /\ ev = EvIdle
  /\ ld = LdIdle
  /\ er = ErIdle
  /\ en = EnIdle
  /\ da = DaIdle
  /\ ds = DsIdle
  /\ rc = RcInit

NextRace ==
  \/ RcCheck
  \/ RcEnsureInput
  \/ RcEnsureReturn
  \/ RcTimer
  \/ RcAction

SpecRace == InitRace /\ [][NextRace]_vars

\* C17: the session is driven serially: no click or keypress of the
\* classification / resolution step of one action, or of the setup before
\* the script, is delivered after the next action has started.
C17_SessionDrivenSerially == ~rc.stray

\* C18: every awaited session call is raced against a timer, so that the
\* classifier is never left waiting for a session call that does not
\* complete.
C18_NoAwaitWithoutTimer == cl.pc # "waiting"

\* C19: the script runs for at most totalScriptBudget plus the overrun of
\* the remote calls in flight at that moment: once the budget has run out,
\* executeActions is at a point where it starts no further session call
\* (the loop head, which throws; the end of an action; its return).
C19_NoCallStartedPastBudget ==
  InExecuteActions /\ clock > TotalBudget
    => pc \in {"loop", "afterAction", "returned", "threw", "done"}

(***************************************************************************)
(* The orchestrators: the `test` command of cli.ts and runTestAsync of the *)
(* dashboard server.  Each runs the steps of its try block in order; a     *)
(* step that throws leaves for the catch block.                            *)
(***************************************************************************)
CliSteps == <<"config", "create", "components", "test", "report", "close">>

ServerSteps ==
  <<"config", "create", "components", "navigate", "capture", "interact",
    "analyze", "report", "close">>

Steps(who) == IF who = "cli" THEN CliSteps ELSE ServerSteps

\* the outcomes of the run proper as the orchestrator sees them; testGame
\* turns every error, thrown timeouts included, into an error report
ReportKinds == {"pass", "fail", "error"}

\* the createSession call that yields the session: cli.ts makes one call;
\* the server falls back to the local browser on a quota error and, on a
\* session limit, retries and then falls back
CreateCalls(who) ==
  IF who = "cli" THEN {"first"}
  ELSE {"first", "local", "retry", "retryLocal"}

OcInit(who) ==
  [who |-> who, pc |-> "try", k |-> 1, created |-> FALSE,
   currentSession |-> FALSE, closeCalled |-> FALSE, failedAt |-> "none",
   report |-> "none", via |-> "none", exitCode |-> -1]

OcStepName == Steps(oc.who)[oc.k]

\* a step of the try block completes
OcStep ==
  /\ oc.pc = "try" /\ OcStepName # "close"
  /\ \E r \in ReportKinds : \E c \in CreateCalls(oc.who) :
       oc' = [oc EXCEPT
                !.k = oc.k + 1,
                !.via = IF OcStepName = "create" THEN c ELSE oc.via,
                !.created = oc.created \/ OcStepName = "create",
                !.currentSession =
                   oc.currentSession
                     \/ (OcStepName = "create" /\ oc.who = "server"),
                !.report = IF OcStepName \in {"test", "analyze"}
                           THEN r ELSE oc.report]
  /\ UNCHANGED <<execVars, rs, cl, gt, rc, pl, rp, kp, ev, ld, er, en, da, ds>>

\* a step of the try block throws (testGame itself returns a report instead)
OcThrow ==
  /\ oc.pc = "try" /\ OcStepName # "close"
  /\ ~(oc.who = "cli" /\ OcStepName = "test")
  /\ oc' = [oc EXCEPT !.pc = "catch", !.failedAt = OcStepName]
  /\ UNCHANGED <<execVars, rs, cl, gt, rc, pl, rp, kp, ev, ld, er, en, da, ds>>

\* await session.close() at the end of the try block; the server swallows
\* its rejection, the command line tool lets it reach the catch block
OcClose ==
  /\ oc.pc = "try" /\ OcStepName = "close"
  /\ \E o \in ROutcomes :
       oc' = [oc EXCEPT
                !.closeCalled = TRUE, !.currentSession = FALSE,
                !.failedAt = IF o = "ok" THEN "none" ELSE "close",
                !.exitCode = IF oc.who = "cli" /\ o = "ok"
                             THEN (IF oc.report = "pass" THEN 0 ELSE 1)
                             ELSE oc.exitCode,
                !.pc = IF oc.who = "server" THEN "finally"
                       ELSE IF o = "ok" THEN "exit" ELSE "catch"]
  /\ UNCHANGED <<execVars, rs, cl, gt, rc, pl, rp, kp, ev, ld, er, en, da, ds>>

\* the catch block: cli.ts reports the error and calls process.exit(1);
\* the server closes this.currentSession when set and writes an error report
OcCatch ==
  /\ oc.pc = "catch"
  /\ oc' = IF oc.who = "cli" THEN [oc EXCEPT !.pc = "exit", !.exitCode = 1]
           ELSE [oc EXCEPT !.closeCalled = oc.closeCalled \/ oc.currentSession,
                           !.currentSession = FALSE,
                           !.report = "error",
                           !.pc = "finally"]
  /\ UNCHANGED <<execVars, rs, cl, gt, rc, pl, rp, kp, ev, ld, er, en, da, ds>>

\* the server's finally block: forceResetTestState closes this.currentSession
\* when it is still set
OcFinally ==
  /\ oc.pc = "finally"
  /\ oc' = [oc EXCEPT !.closeCalled = oc.closeCalled \/ oc.currentSession,
                      !.currentSession = FALSE,
                      !.pc = "exit"]
  /\ UNCHANGED <<execVars, rs, cl, gt, rc, pl, rp, kp, ev, ld, er, en, da, ds>>

\* the next run
OcAgain ==
  /\ oc.pc = "exit"
  /\ \E who \in {"cli", "server"} : oc' = OcInit(who)
  /\ UNCHANGED <<execVars, rs, cl, gt, rc, pl, rp, kp, ev, ld, er, en, da, ds>>

InitOrch ==
  /\ runPhase = "idle"
  /\ actions = <<>>
  /\ i = 0
  /\ pc = "done"
  /\ clock = 0
  /\ actElapsed = 0
  /\ levelNavigationCount = 0
  /\ postI = 0
  /\ thrown = "none"
  /\ browserOpen = TRUE
  /\ kpN = 0
  /\ navK = 0
  /\ navButtons = FALSE
  /\ navClicks = 0
  /\ clickAtCap = FALSE
  /\ waitRequested = 0
  /\ clickDelivered = FALSE
  /\ closedDetected = FALSE
  /\ navAllAdvanced = TRUE
  /\ advances = 0
  /\ rs = RsIdle
  /\ cl = ClIdle
  /\ gt = GtIdle
  /\ rc = RcIdle
  /\ \E who \in {"cli", "server"} : oc = OcInit(who)
  /\ pl = PlIdle
  /\ rp = RpIdle
  /\ kp = KpIdle
  /\ ev = EvIdle
  /\ ld = LdIdle
  /\ er = ErIdle
  /\ en = EnIdle
  /\ da = DaIdle
  /\ ds = DsIdle

NextOrch ==
  \/ OcStep
  \/ OcThrow
  \/ OcClose
  \/ OcCatch
  \/ OcFinally
  \/ OcAgain

SpecOrch == InitOrch /\ [][NextOrch]_vars

\* C20: once the session has been created, the orchestrator has called its
\* close on every path on which the run ends.
C20_SessionClosedOnEveryExit ==
  oc.pc = "exit" /\ oc.created => oc.closeCalled

(***************************************************************************)
(* The timeout policy on its way from the configuration file to the        *)
(* script: loadConfig, the engine's constructor, executeActions.  Budgets  *)
(* are in units of ten seconds.                                            *)
(***************************************************************************)
\* largest budget read from a configuration file
MaxPolicy == 3

\* defaultConfig.timeouts.action (20 s)
DefaultAction == 2
\* defaultConfig.timeouts.total (300 s)
DefaultTotal == 30

\* longest script of this part
PolicyScript == 2

\* what loadConfig is given: no path, a file that cannot be read or
\* parsed, or a file whose timeouts.action / timeouts.total are a positive
\* number or absent (0 stands for an absent field)
PolicyFiles ==
  {[kind |-> k, action |-> 0, total |-> 0] : k \in {"none", "unreadable"}}
  \cup [kind : {"file"}, action : 0..MaxPolicy, total : 0..MaxPolicy]

\* config.timeouts?.x ?? defaultConfig.timeouts.x
OrDefault(v, d) == IF v = 0 THEN d ELSE v

\* loadConfig
LoadConfig(f) ==
  IF f.kind = "file"
  THEN [action |-> OrDefault(f.action, DefaultAction),
        total |-> OrDefault(f.total, DefaultTotal)]
  ELSE [action |-> DefaultAction, total |-> DefaultTotal]

PlInit(f, n) ==
  [pc |-> "load", file |-> f, len |-> n,
   timeouts |-> [action |-> 0, total |-> 0],
   i |-> 0, elapsed |-> 0, executed |-> 0, thrown |-> "none"]

\* loadConfig, new QAAgent, new InteractionEngine(session, ..., timeouts)
PlLoad ==
  /\ pl.pc = "load"
  /\ pl' = [pl EXCEPT !.timeouts = LoadConfig(pl.file), !.pc = "start"]
  /\ UNCHANGED <<execVars, rs, cl, gt, rc, oc, rp, kp, ev, ld, er, en, da, ds>>

\* executeActions: startTime, totalTimeout
PlStart ==
  /\ pl.pc = "start"
  /\ pl' = [pl EXCEPT !.pc = "loop", !.i = 0, !.elapsed = 0]
  /\ UNCHANGED <<execVars, rs, cl, gt, rc, oc, rp, kp, ev, ld, er, en, da, ds>>

\* executeActions: the loop head
PlLoopHead ==
  /\ pl.pc = "loop"
  /\ pl' = IF pl.i >= pl.len THEN [pl EXCEPT !.pc = "returned"]
           ELSE IF pl.elapsed > pl.timeouts.total
           THEN [pl EXCEPT !.pc = "threw", !.thrown = ErrTotal]
           ELSE [pl EXCEPT !.pc = "exec"]
  /\ UNCHANGED <<execVars, rs, cl, gt, rc, oc, rp, kp, ev, ld, er, en, da, ds>>

\* executeAction under timeouts.action: it returns within the per-action
\* budget or throws the action timeout
PlExec ==
  /\ pl.pc = "exec"
  /\ \E d \in 0..(pl.timeouts.action + 1) :
       pl' = IF d > pl.timeouts.action
             THEN [pl EXCEPT !.pc = "threw", !.thrown = ErrActionExceeded,
                             !.executed = pl.executed + 1,
                             !.elapsed = pl.elapsed + pl.timeouts.action]
             ELSE [pl EXCEPT !.pc = "loop", !.i = pl.i + 1,
                             !.executed = pl.executed + 1,
                             !.elapsed = pl.elapsed + d]
  /\ UNCHANGED <<execVars, rs, cl, gt, rc, oc, rp, kp, ev, ld, er, en, da, ds>>

\* the next run
PlAgain ==
  /\ pl.pc \in {"returned", "threw"}
  /\ \E f \in PolicyFiles, n \in 1..PolicyScript : pl' = PlInit(f, n)
  /\ UNCHANGED <<execVars, rs, cl, gt, rc, oc, rp, kp, ev, ld, er, en, da, ds>>

InitPolicy ==
  /\ runPhase = "idle"
  /\ actions = <<>>
  /\ i = 0
  /\ pc = "done"
  /\ clock = 0
  /\ actElapsed = 0
  /\ levelNavigationCount = 0
  /\ postI = 0
  /\ thrown = "none"
  /\ browserOpen = TRUE
  /\ kpN = 0
  /\ navK = 0
  /\ navButtons = FALSE
  /\ navClicks = 0
  /\ clickAtCap = FALSE
  /\ waitRequested = 0
  /\ clickDelivered = FALSE
  /\ closedDetected = FALSE
  /\ navAllAdvanced = TRUE
  /\ advances = 0
  /\ rs = RsIdle
  /\ cl = ClIdle
  /\ gt = GtIdle
  /\ rc = RcIdle
  /\ oc = OcIdle
  /\ \E f \in PolicyFiles, n \in 1..PolicyScript : pl = PlInit(f, n)
  /\ rp = RpIdle
  /\ kp = KpIdle
  /\ ev = EvIdle
  /\ ld = LdIdle
  /\ er = ErIdle
  /\ en = EnIdle
  /\ da = DaIdle
  /\ ds = DsIdle

NextPolicy ==
  \/ PlLoad
  \/ PlStart
  \/ PlLoopHead
  \/ PlExec
  \/ PlAgain

SpecPolicy == InitPolicy /\ [][NextPolicy]_vars

\* C21 (as claimed): a timeout policy with total < per-action budget is
\* rejected at script start, so no action is ever executed under it.
C21_InvalidPolicyRejectedAtStart ==
  pl.pc # "idle" /\ pl.executed > 0 => pl.timeouts.total >= pl.timeouts.action

(***************************************************************************)
(* Further properties of the action executor (checked under Spec).         *)
(***************************************************************************)
\* executeAction is about to call isBrowserOpen()
C22_AtProbe ==
  /\ InExecuteActions
  /\ \/ pc \in {"kp_probe1", "kp_probe2", "kp_probe3", "kp_probe4"}
     \/ pc = "exec" /\ Cur.type = "screenshot"

ErrWrite == "EACCES: permission denied"

TimeoutMessages == {ErrTotal, ErrActionExceeded, ErrActionRace}

RpOutcomes == IF rp.open THEN {"ok", "fail", "closed"} ELSE {"closed"}

\* the session answered `o`; `late` tells the final capture steps
See(r, o, late) ==
  [r EXCEPT !.open = r.open /\ o # "closed",
            !.closedSeen = r.closedSeen \/ o = "closed",
            !.lateClose = r.lateClose \/ (late /\ r.open /\ o = "closed")]

\* control leaves the try block of testGame with error message m
RpThrow(r, m) == [r EXCEPT !.pc = "catch", !.err = m]

ErrorReport_NoMessage(m) == [status |-> "error", issue |-> "Test execution failed"]

\* the report built by the catch block:
\* description: `Test execution failed: ${error.message}`
ErrorReport(m) == [status |-> "error", issue |-> m]

\* the report built by Evaluator.evaluate from screenshots and console logs
EvaluatorReports == [status : {"pass", "fail"}, issue : {"evaluation"}]

RpInit ==
  [pc |-> "script", open |-> TRUE, closedSeen |-> FALSE, lateClose |-> FALSE,
   timedOut |-> FALSE, postI |-> 0, err |-> "none",
   report |-> [status |-> "none", issue |-> "none"]]

\* await interactionEngine.executeActions(...), for the configured script
\* and for the four actions run on a new level
RpScript ==
  /\ rp.pc \in {"script", "postscript"}
  /\ \E o \in RpOutcomes :
       LET r == See(rp, o, FALSE)
           n == IF rp.pc = "script" THEN 0 ELSE rp.postI + 1
       IN \/ rp' = [r EXCEPT !.pc = "postnav", !.postI = n]
          \/ \E m \in TimeoutMessages :
               rp' = RpThrow([r EXCEPT !.timedOut = TRUE], m)
          \/ o # "ok" /\ rp' = RpThrow(r, SessionErr(o))
  /\ UNCHANGED <<execVars, rs, cl, gt, rc, oc, pl, kp, ev, ld, er, en, da, ds>>

\* for (let i = 0; i < maxLevels - 1; i++): handleLevelNavigation, which
\* never throws and advances only on a reachable browser
RpPostNav ==
  /\ rp.pc = "postnav"
  /\ IF rp.postI < maxLevels - 1
     THEN \E o \in RpOutcomes, navigated \in BOOLEAN :
            /\ navigated => o = "ok"
            /\ rp' = [See(rp, o, FALSE) EXCEPT
                        !.pc = IF navigated THEN "postwait" ELSE "force"]
     ELSE rp' = [rp EXCEPT !.pc = "force"]
  /\ UNCHANGED <<execVars, rs, cl, gt, rc, oc, pl, kp, ev, ld, er, en, da, ds>>

\* await this.session.wait(2000), then captureScreenshot
RpPostWait ==
  /\ rp.pc = "postwait"
  /\ \E o \in RpOutcomes :
       rp' = IF o = "ok" THEN [See(rp, o, FALSE) EXCEPT !.pc = "postscript"]
             ELSE RpThrow(See(rp, o, FALSE), SessionErr(o))
  /\ UNCHANGED <<execVars, rs, cl, gt, rc, oc, pl, kp, ev, ld, er, en, da, ds>>

\* Step 6: the tile-visibility evaluate and wait(500) in a try that swallows
RpForce ==
  /\ rp.pc = "force"
  /\ \E o \in RpOutcomes : rp' = [See(rp, o, FALSE) EXCEPT !.pc = "finalwait"]
  /\ UNCHANGED <<execVars, rs, cl, gt, rc, oc, pl, kp, ev, ld, er, en, da, ds>>

\* await this.session.wait(1000), outside any inner try
RpFinalWait ==
  /\ rp.pc = "finalwait"
  /\ \E o \in RpOutcomes :
       rp' = IF o = "ok" THEN [See(rp, o, FALSE) EXCEPT !.pc = "finalshot"]
             ELSE RpThrow(See(rp, o, FALSE), SessionErr(o))
  /\ UNCHANGED <<execVars, rs, cl, gt, rc, oc, pl, kp, ev, ld, er, en, da, ds>>

\* captureScreenshot(session, 'final-state'): its failure is swallowed
RpFinalShot ==
  /\ rp.pc = "finalshot"
  /\ \E o \in RpOutcomes : rp' = [See(rp, o, TRUE) EXCEPT !.pc = "logs"]
  /\ UNCHANGED <<execVars, rs, cl, gt, rc, oc, pl, kp, ev, ld, er, en, da, ds>>

\* captureConsoleLogs (swallows), saveConsoleLogs (writeFile may reject)
RpLogs ==
  /\ rp.pc = "logs"
  /\ \E o \in RpOutcomes, w \in {"ok", "fail"} :
       rp' = IF w = "ok" THEN [See(rp, o, TRUE) EXCEPT !.pc = "evaluate"]
             ELSE RpThrow(See(rp, o, TRUE), ErrWrite)
  /\ UNCHANGED <<execVars, rs, cl, gt, rc, oc, pl, kp, ev, ld, er, en, da, ds>>

\* this.evaluator.evaluate(...); return report
RpEvaluate ==
  /\ rp.pc = "evaluate"
  /\ \E rep \in EvaluatorReports :
       rp' = [rp EXCEPT !.pc = "returned", !.report = rep]
  /\ UNCHANGED <<execVars, rs, cl, gt, rc, oc, pl, kp, ev, ld, er, en, da, ds>>

\* the catch block: error-state screenshot and console logs, each in a try
\* that swallows; return the error report
RpCatch ==
  /\ rp.pc = "catch"
  /\ \E o \in RpOutcomes :
       rp' = [See(rp, o, TRUE) EXCEPT !.pc = "returned",
                                      !.report = ErrorReport(rp.err)]
  /\ UNCHANGED <<execVars, rs, cl, gt, rc, oc, pl, kp, ev, ld, er, en, da, ds>>

\* the next test run
RpAgain ==
  /\ rp.pc = "returned"
  /\ rp' = RpInit
  /\ UNCHANGED <<execVars, rs, cl, gt, rc, oc, pl, kp, ev, ld, er, en, da, ds>>

InitReport ==
  /\ runPhase = "idle"
  /\ actions = <<>>
  /\ i = 0
  /\ pc = "done"
  /\ clock = 0
  /\ actElapsed = 0
  /\ levelNavigationCount = 0
  /\ postI = 0
  /\ thrown = "none"
  /\ browserOpen = TRUE
  /\ kpN = 0
  /\ navK = 0
  /\ navButtons = FALSE
  /\ navClicks = 0
  /\ clickAtCap = FALSE
  /\ waitRequested = 0
  /\ clickDelivered = FALSE
  /\ closedDetected = FALSE
  /\ navAllAdvanced = TRUE
  /\ advances = 0
  /\ rs = RsIdle
  /\ cl = ClIdle
  /\ gt = GtIdle
  /\ rc = RcIdle
  /\ oc = OcIdle
  /\ pl = PlIdle
  /\ rp = RpInit
  /\ kp = KpIdle
  /\ ev = EvIdle
  /\ ld = LdIdle
  /\ er = ErIdle
  /\ en = EnIdle
  /\ da = DaIdle
  /\ ds = DsIdle

NextReport ==
  \/ RpScript
  \/ RpPostNav
  \/ RpPostWait
  \/ RpForce
  \/ RpFinalWait
  \/ RpFinalShot
  \/ RpLogs
  \/ RpEvaluate
  \/ RpCatch
  \/ RpAgain

SpecReport == InitReport /\ [][NextReport]_vars

C23_RecordsACondition ==
  /\ rp.report.status = "error"
  /\ MsgIncludesTimeout(rp.report.issue) \/ MsgIncludesClosed(rp.report.issue)

C24_CoordinateClickDeliveredWithoutClickAt ==
  /\ InExecuteActions /\ pc = "click_settle"
  /\ Cur.xy /\ ~Cur.selector /\ ~clickAtCap
  => clickDelivered

(***************************************************************************)
(* executeAction, case 'keypress': the key that is pressed and the loop    *)
(* that presses it (interaction-engine.ts 263, 300-361).                   *)
(***************************************************************************)
\* largest action.repeat drawn
MaxRepeat == 3

\* action.key
Keys == {"ArrowUp", "ArrowLeft", "w", "a", "Space"}

\* this.inputSchema: null, a schema without a movement axis, or a schema
\* whose movement axis is bound to W/A or to I/J
Schemas == {"none", "noAxis", "wasd", "ijkl"}

\* directionMap
DirectionMap(k) ==
  CASE k = "ArrowUp" -> "up"
    [] k = "ArrowLeft" -> "left"
    [] OTHER -> "undefined"

\* keyMap
KeyMap(k) ==
  CASE k = "w" -> "ArrowUp"
    [] k = "a" -> "ArrowLeft"
    [] OTHER -> "undefined"

\* getMovementKeys(direction) for a schema that is set
GetMovementKeys(schema, dir) ==
  CASE schema = "wasd" -> IF dir = "up" THEN <<"w">> ELSE <<"a">>
    [] schema = "ijkl" -> IF dir = "up" THEN <<"i">> ELSE <<"j">>
    [] OTHER -> IF dir = "up" THEN <<"ArrowUp", "w", "W">>
                ELSE <<"ArrowLeft", "a", "A">>

\* keyToPress after the schema lookup
SchemaKey(schema, k) ==
  IF schema # "none" /\ DirectionMap(k) # "undefined"
       /\ Len(GetMovementKeys(schema, DirectionMap(k))) > 0
  THEN GetMovementKeys(schema, DirectionMap(k))[1]
  ELSE k

\* keyToPress after the built-in remap:
\* if (!this.inputSchema || !directionMap[action.key])
KeyToPress(schema, k) ==
  LET s == SchemaKey(schema, k)
  IN IF (schema = "none" \/ DirectionMap(k) = "undefined")
          /\ KeyMap(s) # "undefined"
     THEN KeyMap(s) ELSE s

\* const repeat = action.repeat || 1
RepeatOr1(r) == IF r = 0 THEN 1 ELSE r

Delay_Flat(n) == 300

\* const delay = i === 0 ? 400 : 300
Delay(n) == IF n = 0 THEN 400 ELSE 300

KpOutcomes == {"ok", "fail", "timeout"}

KpInit(k, r, schema) ==
  [pc |-> "map", key |-> k, repeat |-> r, schema |-> schema,
   keyToPress |-> "none", i |-> 0, pressed |-> <<>>, delays |-> <<>>]

\* lines 300-342: keyToPress
KpMapKey ==
  /\ kp.pc = "map"
  /\ kp' = [kp EXCEPT !.keyToPress = KeyToPress(kp.schema, kp.key),
                      !.pc = "loop"]
  /\ UNCHANGED <<execVars, rs, cl, gt, rc, oc, pl, rp, ev, ld, er, en, da, ds>>

\* for (let i = 0; i < repeat; i++): checkTimeout, session.keypress raced
KpLoopPress ==
  /\ kp.pc = "loop"
  /\ IF kp.i < RepeatOr1(kp.repeat)
     THEN \E o \in KpOutcomes :
            kp' = IF o = "timeout" THEN [kp EXCEPT !.pc = "failed"]
                  ELSE [kp EXCEPT
                          !.pressed = Append(kp.pressed, kp.keyToPress),
                          !.pc = IF o = "fail" THEN "failed"
                                 ELSE IF kp.i < RepeatOr1(kp.repeat) - 1
                                 THEN "delay" ELSE "loop",
                          !.i = IF o = "ok"
                                     /\ ~(kp.i < RepeatOr1(kp.repeat) - 1)
                                THEN kp.i + 1 ELSE kp.i]
     ELSE kp' = [kp EXCEPT !.pc = "done"]
  /\ UNCHANGED <<execVars, rs, cl, gt, rc, oc, pl, rp, ev, ld, er, en, da, ds>>

\* if (i < repeat - 1) await this.session.wait(delay)
KpLoopDelay ==
  /\ kp.pc = "delay"
  /\ \E o \in {"ok", "fail"} :
       kp' = [kp EXCEPT !.delays = Append(kp.delays, Delay(kp.i)),
                        !.i = kp.i + 1,
                        !.pc = IF o = "ok" THEN "loop" ELSE "failed"]
  /\ UNCHANGED <<execVars, rs, cl, gt, rc, oc, pl, rp, ev, ld, er, en, da, ds>>

\* the next keypress action
KpAgain ==
  /\ kp.pc \in {"done", "failed"}
  /\ \E k \in Keys, r \in 0..MaxRepeat, schema \in Schemas :
       kp' = KpInit(k, r, schema)
  /\ UNCHANGED <<execVars, rs, cl, gt, rc, oc, pl, rp, ev, ld, er, en, da, ds>>

InitKeypress ==
  /\ runPhase = "idle"
  /\ actions = <<>>
  /\ i = 0
  /\ pc = "done"
  /\ clock = 0
  /\ actElapsed = 0
  /\ levelNavigationCount = 0
  /\ postI = 0
  /\ thrown = "none"
  /\ browserOpen = TRUE
  /\ kpN = 0
  /\ navK = 0
  /\ navButtons = FALSE
  /\ navClicks = 0
  /\ clickAtCap = FALSE
  /\ waitRequested = 0
  /\ clickDelivered = FALSE
  /\ closedDetected = FALSE
  /\ navAllAdvanced = TRUE
  /\ advances = 0
  /\ rs = RsIdle
  /\ cl = ClIdle
  /\ gt = GtIdle
  /\ rc = RcIdle
  /\ oc = OcIdle
  /\ pl = PlIdle
  /\ rp = RpIdle
  /\ ev = EvIdle
  /\ ld = LdIdle
  /\ er = ErIdle
  /\ en = EnIdle
  /\ da = DaIdle
  /\ ds = DsIdle
  /\ \E k \in Keys, r \in 0..MaxRepeat, schema \in Schemas :
       kp = KpInit(k, r, schema)

NextKeypress ==
  \/ KpMapKey
  \/ KpLoopPress
  \/ KpLoopDelay
  \/ KpAgain

SpecKeypress == InitKeypress /\ [][NextKeypress]_vars

\* C25: a keypress action with repeat count n (1 when absent) that runs
\* without a failure presses its key exactly n times and waits between the
\* presses only: 400 ms after the first press, 300 ms after each later
\* press but the last.
C25_PressesAndDelays ==
  kp.pc = "done"
  => /\ kp.pressed = [n \in 1..RepeatOr1(kp.repeat) |-> kp.keyToPress]
     /\ kp.delays = [n \in 1..(RepeatOr1(kp.repeat) - 1) |->
                       IF n = 1 THEN 400 ELSE 300]

C25_Witness ==
  /\ kp.pc = "done"
  /\ kp.repeat = 3
  /\ Len(kp.pressed) = 3
  /\ kp.delays = <<400, 300>>

\* C26 (as claimed): when an input schema is supplied, the pressed key is
\* the action's key or a key of the schema; the built-in remap of W/A/S/D
\* to the arrow keys is not applied.
C26_NoBuiltInRemapUnderSchema ==
  kp.pc # "idle" /\ kp.pc # "map" /\ kp.schema # "none"
  => \/ kp.keyToPress = kp.key
     \/ \E d \in {"up", "left"} :
          kp.keyToPress = GetMovementKeys(kp.schema, d)[1]

(***************************************************************************)
(* Further properties of the classifier (checked under SpecClassify).      *)
(***************************************************************************)
\* the second of two calls in immediate succession on an unchanged page
\* has returned
C27_SecondRunDone == cl.pc = "done" /\ cl.samePage /\ cl.prevHow # "none"

Labels == {"final-state", "error-state"}

Versions == {"plain", "guarded"}

\* the value returned from the catch block
FailedInfo(label) == [filename |-> "", label |-> label]

\* the value pushed and returned after a capture
CapturedInfo(label) == [filename |-> "screenshot.png", label |-> label]

EvInit(v, label, modals, firebase, shots) ==
  [pc |-> IF v = "guarded" /\ modals THEN "modals"
          ELSE IF v = "guarded" THEN "settle" ELSE "shot",
   version |-> v, label |-> label, firebase |-> firebase,
   screenshots |-> shots, failed |-> FALSE, written |-> FALSE,
   ret |-> [filename |-> "none", label |-> "none"]]

EvThrow_Uncaught(r) == [r EXCEPT !.pc = "rejected"]

\* an error inside the try block of captureScreenshot
EvThrow(r) == [r EXCEPT !.pc = "catch"]

\* this.screenshots.push(screenshotInfo); return screenshotInfo
EvPush(r) ==
  [r EXCEPT !.pc = "resolved", !.ret = CapturedInfo(r.label),
            !.screenshots = r.screenshots \cup {CapturedInfo(r.label)}]

\* guarded: checkForModals() and wait(1000) in a try that swallows
EvModals ==
  /\ ev.pc = "modals"
  /\ ev' = [ev EXCEPT !.pc = "settle"]
  /\ UNCHANGED <<execVars, rs, cl, gt, rc, oc, pl, rp, kp, ld, er, en, da, ds>>

\* guarded: await session.wait(300), awaited as it is
EvSettle ==
  /\ ev.pc = "settle"
  /\ \E o \in {"ok", "fail", "never"} :
       ev' = IF o = "ok" THEN [ev EXCEPT !.pc = "shot"]
             ELSE IF o = "fail" THEN EvThrow(ev)
             ELSE [ev EXCEPT !.pc = "waiting"]
  /\ UNCHANGED <<execVars, rs, cl, gt, rc, oc, pl, rp, kp, ld, er, en, da, ds>>

\* session.screenshot(): raced against 15 s in the guarded version, which
\* goes on to its retry when the call fails or the timer wins
EvShot ==
  /\ ev.pc = "shot"
  /\ \E o \in {"ok", "fail", "never"} :
       ev' = IF o = "ok" THEN [ev EXCEPT !.pc = "write"]
             ELSE IF ev.version = "guarded" THEN [ev EXCEPT !.pc = "retry"]
             ELSE IF o = "fail" THEN EvThrow(ev)
             ELSE [ev EXCEPT !.pc = "waiting"]
  /\ UNCHANGED <<execVars, rs, cl, gt, rc, oc, pl, rp, kp, ld, er, en, da, ds>>

\* guarded: wait(500) and session.screenshot() raced against 10 s
EvRetry ==
  /\ ev.pc = "retry"
  /\ \E o \in {"ok", "fail", "never"} :
       ev' = IF o = "ok" THEN [ev EXCEPT !.pc = "write"] ELSE EvThrow(ev)
  /\ UNCHANGED <<execVars, rs, cl, gt, rc, oc, pl, rp, kp, ld, er, en, da, ds>>

\* await writeFile(filepath, screenshotBuffer)
EvWrite ==
  /\ ev.pc = "write"
  /\ \E o \in {"ok", "fail"} :
       ev' = IF o = "fail" THEN EvThrow(ev)
             ELSE IF ev.version = "guarded" /\ ev.firebase
             THEN [ev EXCEPT !.pc = "upload", !.written = TRUE]
             ELSE EvPush([ev EXCEPT !.written = TRUE])
  /\ UNCHANGED <<execVars, rs, cl, gt, rc, oc, pl, rp, kp, ld, er, en, da, ds>>

\* guarded, useFirebase: initialize and uploadScreenshot
EvUpload ==
  /\ ev.pc = "upload"
  /\ \E o \in {"ok", "fail"} :
       ev' = IF o = "ok" THEN EvPush(ev) ELSE EvThrow(ev)
  /\ UNCHANGED <<execVars, rs, cl, gt, rc, oc, pl, rp, kp, ld, er, en, da, ds>>

\* the catch block: nothing is pushed
EvCatch ==
  /\ ev.pc = "catch"
  /\ ev' = [ev EXCEPT !.pc = "resolved", !.failed = TRUE,
                      !.ret = FailedInfo(ev.label)]
  /\ UNCHANGED <<execVars, rs, cl, gt, rc, oc, pl, rp, kp, ld, er, en, da, ds>>

\* the next capture of the same EvidenceCapture object
EvAgain ==
  /\ ev.pc = "resolved"
  /\ \E label \in Labels, modals \in BOOLEAN :
       ev' = EvInit(ev.version, label, modals, ev.firebase, ev.screenshots)
  /\ UNCHANGED <<execVars, rs, cl, gt, rc, oc, pl, rp, kp, ld, er, en, da, ds>>

\* getScreenshots(): the guarded version filters out empty filenames
GetScreenshots ==
  IF ev.version = "guarded"
  THEN {x \in ev.screenshots : x.filename # ""}
  ELSE ev.screenshots

InitCapture ==
  /\ runPhase = "idle"
  /\ actions = <<>>
  /\ i = 0
  /\ pc = "done"
  /\ clock = 0
  /\ actElapsed = 0
  /\ levelNavigationCount = 0
  /\ postI = 0
  /\ thrown = "none"
  /\ browserOpen = TRUE
  /\ kpN = 0
  /\ navK = 0
  /\ navButtons = FALSE
  /\ navClicks = 0
  /\ clickAtCap = FALSE
  /\ waitRequested = 0
  /\ clickDelivered = FALSE
  /\ closedDetected = FALSE
  /\ navAllAdvanced = TRUE
  /\ advances = 0
  /\ rs = RsIdle
  /\ cl = ClIdle
  /\ gt = GtIdle
  /\ rc = RcIdle
  /\ oc = OcIdle
  /\ pl = PlIdle
  /\ rp = RpIdle
  /\ kp = KpIdle
  /\ ld = LdIdle
  /\ er = ErIdle
  /\ en = EnIdle
  /\ da = DaIdle
  /\ ds = DsIdle
  /\ \E v \in Versions, label \in Labels, modals \in BOOLEAN,
        firebase \in BOOLEAN :
       ev = EvInit(v, label, modals, firebase /\ v = "guarded", {})

NextCapture ==
  \/ EvModals
  \/ EvSettle
  \/ EvShot
  \/ EvRetry
  \/ EvWrite
  \/ EvUpload
  \/ EvCatch
  \/ EvAgain

SpecCapture == InitCapture /\ [][NextCapture]_vars

\* C28: captureScreenshot never rejects; when the session screenshot, the
\* file write (or the upload) fails or its timer expires, it resolves with
\* an info that carries the requested label and an empty filename, and no
\* such info is in getScreenshots().
C28_CaptureNeverRejects ==
  /\ ev.pc # "rejected"
  /\ ev.pc = "resolved" /\ ev.failed
       => ev.ret = [filename |-> "", label |-> ev.label]
  /\ ev.pc # "idle" => \A x \in GetScreenshots : x.filename # ""

C28_Witness ==
  /\ ev.pc = "resolved" /\ ev.failed
  /\ ev.ret = [filename |-> "", label |-> "error-state"]
  /\ ev.screenshots = {CapturedInfo("final-state")}

C29_ReturnsTrue ==
  /\ pc \in {"nav_try", "nav_fallback"}
  /\ pc' \in {"advance_wait", "post_wait"}

C30_ClickStages ==
  {"click_fallback", "click_settle", "click_check", "click_shot"}

C30_AtBareClick ==
  /\ InExecuteActions /\ pc = "exec"
  /\ Cur.type = "click" /\ ~Cur.selector /\ ~Cur.xy

\* C30: a click action with neither a selector nor coordinates never has a
\* click dispatched to the session: executeAction throws before any session
\* call, the error is swallowed by its catch, and the action is over with no
\* click stage entered and no click delivered.
C30_BareClickDispatchesNothing ==
  /\ [](InExecuteActions /\ pc \in C30_ClickStages
          => Cur.selector \/ Cur.xy)
  /\ [](InExecuteActions /\ clickDelivered => Cur.selector \/ Cur.xy)
  /\ [][ C30_AtBareClick
         => /\ pc' = "afterAction"
            /\ ~clickDelivered'
            /\ clock' = clock /\ browserOpen' = browserOpen
            /\ thrown' = thrown /\ i' = i ]_vars

C30_Witness ==
  /\ InExecuteActions /\ pc = "afterAction"
  /\ Cur.type = "click" /\ ~Cur.selector /\ ~Cur.xy
  /\ ~clickDelivered /\ browserOpen /\ thrown = "none"

(***************************************************************************)
(* SpecLoad: QAAgent.loadGame as testGame calls it (qa-agent.ts).          *)
(* session.navigate and session.wait are calls of the remote session and   *)
(* either resolve or reject.                                               *)
(***************************************************************************)

\* loadGame(gameUrl, retries = 3)
Retries == 3

ErrNavTimeout == "Navigation timeout of 30000 ms exceeded"
ErrNavNet == "net::ERR_NAME_NOT_RESOLVED"
ErrWaitClosed == "Target page, context or browser has been closed"

\* what session.navigate does: resolves, or rejects with a message
LdNavOutcomes == {"ok", ErrNavTimeout, ErrNavNet}

\* what session.wait does
LdWaitOutcomes == {"ok", ErrWaitClosed}

\* `Failed to load game after ${retries} attempts: ${error.message}`
LoadError(m) == [kind |-> "load", cause |-> m]

\* an error that leaves loadGame as it was thrown
Rethrown(m) == [kind |-> "plain", cause |-> m]

NoError == [kind |-> "none", cause |-> "none"]

LdInit ==
  [pc |-> "navigate", attempt |-> 1, navs |-> <<>>, tries |-> <<>>,
   waited |-> 0, err |-> NoError, report |-> "none"]

LastAttempt_Early(a) == a >= Retries - 1

\* attempt === retries
LastAttempt(a) == a = Retries

\* the catch block of one attempt, entered with the message m
LdCatch(m) ==
  IF LastAttempt(ld.attempt)
  THEN ld' = [ld EXCEPT !.pc = "threw", !.err = LoadError(m),
                        !.navs = Append(@, IF m = ErrWaitClosed THEN "ok"
                                                                 ELSE m),
                        !.tries = Append(@, m)]
  ELSE ld' = [ld EXCEPT !.pc = "backoff",
                        !.navs = Append(@, IF m = ErrWaitClosed THEN "ok"
                                                                 ELSE m),
                        !.tries = Append(@, m)]

\* await this.session.navigate(gameUrl)
LdNavigate ==
  /\ ld.pc = "navigate"
  /\ \E o \in LdNavOutcomes :
       IF o = "ok"
       THEN ld' = [ld EXCEPT !.pc = "settle"]
       ELSE LdCatch(o)
  /\ UNCHANGED <<execVars, rs, cl, gt, rc, oc, pl, rp, kp, ev, er, en, da, ds>>

\* await this.session.wait(2000); return
LdSettle ==
  /\ ld.pc = "settle"
  /\ \E o \in LdWaitOutcomes :
       IF o = "ok"
       THEN ld' = [ld EXCEPT !.pc = "returned",
                             !.navs = Append(@, "ok"),
                             !.tries = Append(@, "ok"),
                             !.waited = @ + 2]
       ELSE LdCatch(o)
  /\ UNCHANGED <<execVars, rs, cl, gt, rc, oc, pl, rp, kp, ev, er, en, da, ds>>

\* await this.session.wait(1000 * attempt), inside the catch block
LdBackoff ==
  /\ ld.pc = "backoff"
  /\ \E o \in LdWaitOutcomes :
       IF o = "ok"
       THEN ld' = [ld EXCEPT !.pc = "navigate", !.attempt = @ + 1,
                             !.waited = @ + ld.attempt]
       ELSE ld' = [ld EXCEPT !.pc = "threw", !.err = Rethrown(o)]
  /\ UNCHANGED <<execVars, rs, cl, gt, rc, oc, pl, rp, kp, ev, er, en, da, ds>>

\* testGame: goes on after loadGame returned, or its catch builds the
\* error report
LdTestGame ==
  /\ ld.pc \in {"returned", "threw"}
  /\ ld' = [ld EXCEPT !.pc = "done",
                      !.report = IF ld.pc = "returned" THEN "goesOn"
                                                        ELSE "error"]
  /\ UNCHANGED <<execVars, rs, cl, gt, rc, oc, pl, rp, kp, ev, er, en, da, ds>>

LdAgain ==
  /\ ld.pc = "done"
  /\ ld' = LdInit
  /\ UNCHANGED <<execVars, rs, cl, gt, rc, oc, pl, rp, kp, ev, er, en, da, ds>>

InitLoad ==
  /\ runPhase = "idle"
  /\ actions = <<>>
  /\ i = 0
  /\ pc = "done"
  /\ clock = 0
  /\ actElapsed = 0
  /\ levelNavigationCount = 0
  /\ postI = 0
  /\ thrown = "none"
  /\ browserOpen = TRUE
  /\ kpN = 0
  /\ navK = 0
  /\ navButtons = FALSE
  /\ navClicks = 0
  /\ clickAtCap = FALSE
  /\ waitRequested = 0
  /\ clickDelivered = FALSE
  /\ closedDetected = FALSE
  /\ navAllAdvanced = TRUE
  /\ advances = 0
  /\ rs = RsIdle
  /\ cl = ClIdle
  /\ gt = GtIdle
  /\ rc = RcIdle
  /\ oc = OcIdle
  /\ pl = PlIdle
  /\ rp = RpIdle
  /\ kp = KpIdle
  /\ ev = EvIdle
  /\ er = ErIdle
  /\ en = EnIdle
  /\ da = DaIdle
  /\ ds = DsIdle
  /\ ld = LdInit

NextLoad ==
  \/ LdNavigate
  \/ LdSettle
  \/ LdBackoff
  \/ LdTestGame
  \/ LdAgain

SpecLoad == InitLoad /\ [][NextLoad]_vars

\* C31 (as claimed): navigation is attempted at most 3 times, no navigation
\* follows one that succeeded, and the load error comes only after 3
\* navigation failures in a row.
C31_StopsAtFirstNavigationSuccess ==
  ld.pc # "idle" =>
    /\ Len(ld.navs) <= Retries
    /\ \A k \in 1..Len(ld.navs) - 1 : ld.navs[k] # "ok"
    /\ (ld.err.kind = "load"
          => Len(ld.navs) = Retries
             /\ \A k \in 1..Retries : ld.navs[k] # "ok")

\* C31 (amended): an attempt is navigate followed by a 2 s wait and succeeds
\* when both resolve.  loadGame makes at most 3 attempts, returns at the
\* first attempt that succeeded, and throws the load error exactly when the
\* third attempt failed too; the error names the cause of that third
\* failure.  An error of the back-off wait leaves loadGame as it is.
C31_StopsAtFirstAttemptSuccess ==
  ld.pc # "idle" =>
    /\ Len(ld.tries) <= Retries
    /\ Len(ld.navs) = Len(ld.tries)
    /\ \A k \in 1..Len(ld.tries) - 1 : ld.tries[k] # "ok"
    /\ (ld.pc = "returned"
          => ld.tries # <<>> /\ ld.tries[Len(ld.tries)] = "ok")
    /\ (ld.err.kind = "load"
          => /\ Len(ld.tries) = Retries
             /\ \A k \in 1..Retries : ld.tries[k] # "ok"
             /\ ld.err.cause = ld.tries[Retries])
    /\ (ld.err.kind = "plain" => ld.err.cause = ErrWaitClosed)

C31_Witness ==
  /\ ld.pc = "done" /\ ld.report = "error"
  /\ ld.err.kind = "load"
  /\ ld.navs = <<ErrNavTimeout, "ok", "ok">>

(***************************************************************************)
(* SpecEvaluate: Evaluator.evaluate (evaluator.ts).  The LLM response is   *)
(* any text; what JSON.parse makes of it is a JavaScript value, modelled   *)
(* with its type so that ||, Math.min and Math.max act as they do in       *)
(* JavaScript.                                                             *)
(***************************************************************************)

\* JavaScript values: t is the type, n the number, s the string
JsNum(n) == [t |-> "number", n |-> n, s |-> ""]
JsStr(s) == [t |-> "string", n |-> 0, s |-> s]
JsNaN == [t |-> "NaN", n |-> 0, s |-> ""]
JsUndefined == [t |-> "undefined", n |-> 0, s |-> ""]
JsNull == [t |-> "null", n |-> 0, s |-> ""]
JsObject == [t |-> "object", n |-> 0, s |-> ""]

\* ToBoolean
Truthy(v) ==
  CASE v.t = "number" -> v.n # 0
    [] v.t = "string" -> v.s # ""
    [] v.t = "object" -> TRUE
    [] OTHER -> FALSE

\* a || b
JsOr(a, b) == IF Truthy(a) THEN a ELSE b

\* ToNumber, on the strings of the model
ToNumber(v) ==
  CASE v.t = "number" -> v
    [] v.t = "string" -> IF v.s = "" THEN JsNum(0)
                         ELSE IF v.s = "85" THEN JsNum(85)
                         ELSE JsNaN
    [] v.t = "null" -> JsNum(0)
    [] OTHER -> JsNaN

\* Math.min(a, b) and Math.max(a, b): NaN when an argument is NaN
MathMin(a, b) ==
  LET x == ToNumber(a)
      y == ToNumber(b)
  IN IF x.t = "NaN" \/ y.t = "NaN" THEN JsNaN
     ELSE IF x.n <= y.n THEN x ELSE y

MathMax(a, b) ==
  LET x == ToNumber(a)
      y == ToNumber(b)
  IN IF x.t = "NaN" \/ y.t = "NaN" THEN JsNaN
     ELSE IF x.n >= y.n THEN x ELSE y

\* QAReport['status']
Statuses == {JsStr("pass"), JsStr("fail"), JsStr("partial"), JsStr("error")}

\* the status field of the parsed response
ErStatusValues ==
  Statuses \cup {JsUndefined, JsStr(""), JsStr("great"), JsNum(1), JsNull}

\* the playability_score field of the parsed response
ErScoreValues ==
  {JsNum(-5), JsNum(0), JsNum(1), JsNum(50), JsNum(100), JsNum(150),
   JsStr("85"), JsStr("high"), JsUndefined, JsNull, JsObject}

\* what the LLM call gives: the API call rejects, the text is no JSON,
\* the JSON is null, the JSON is a number, or the JSON is an object
ErResponses ==
  {[kind |-> k, status |-> JsUndefined, score |-> JsUndefined] :
      k \in {"rejected", "noJson", "null", "number"}}
  \cup {[kind |-> "object", status |-> st, score |-> sc] :
          st \in ErStatusValues, sc \in ErScoreValues}

\* the catch of parseEvaluationResponse
ParseDefaults == [status |-> JsStr("partial"), score |-> JsNum(50)]

\* parseEvaluationResponse
ParseEvaluationResponse(r) ==
  CASE r.kind \in {"noJson", "null"} -> ParseDefaults
    [] r.kind = "number" ->
         [status |-> JsOr(JsUndefined, JsStr("partial")),
          score |-> MathMax(JsNum(0),
                            MathMin(JsNum(100),
                                    JsOr(JsUndefined, JsNum(50))))]
    [] OTHER ->
         [status |-> JsOr(r.status, JsStr("partial")),
          score |-> MathMax(JsNum(0),
                            MathMin(JsNum(100), JsOr(r.score, JsNum(50))))]

\* createFallbackReport
CreateFallbackReport(hasErrors, hasScreenshots) ==
  [status |-> IF hasErrors THEN JsStr("fail")
              ELSE IF hasScreenshots THEN JsStr("partial")
              ELSE JsStr("error"),
   score |-> IF hasErrors THEN JsNum(20)
             ELSE IF hasScreenshots THEN JsNum(50) ELSE JsNum(0)]

NoReport == [status |-> JsUndefined, score |-> JsUndefined]

ErInit(hasErrors, hasScreenshots) ==
  [pc |-> "analyze", hasErrors |-> hasErrors,
   hasScreenshots |-> hasScreenshots,
   response |-> [kind |-> "none", status |-> JsUndefined,
                 score |-> JsUndefined],
   via |-> "none", report |-> NoReport]

\* analyzeWithVision / analyzeTextOnly
ErAnalyze ==
  /\ er.pc = "analyze"
  /\ \E r \in ErResponses :
       er' = [er EXCEPT !.response = r,
                        !.pc = IF r.kind = "rejected" THEN "fallback"
                                                      ELSE "parse"]
  /\ UNCHANGED <<execVars, rs, cl, gt, rc, oc, pl, rp, kp, ev, ld, en, da, ds>>

\* parseEvaluationResponse and the report built from it
ErParse ==
  /\ er.pc = "parse"
  /\ er' = [er EXCEPT !.pc = "returned", !.via = "parsed",
                      !.report = ParseEvaluationResponse(er.response)]
  /\ UNCHANGED <<execVars, rs, cl, gt, rc, oc, pl, rp, kp, ev, ld, en, da, ds>>

\* the catch of evaluate
ErFallback ==
  /\ er.pc = "fallback"
  /\ er' = [er EXCEPT !.pc = "returned", !.via = "fallback",
                      !.report = CreateFallbackReport(er.hasErrors,
                                                      er.hasScreenshots)]
  /\ UNCHANGED <<execVars, rs, cl, gt, rc, oc, pl, rp, kp, ev, ld, en, da, ds>>

ErAgain ==
  /\ er.pc = "returned"
  /\ \E e \in BOOLEAN, s \in BOOLEAN : er' = ErInit(e, s)
  /\ UNCHANGED <<execVars, rs, cl, gt, rc, oc, pl, rp, kp, ev, ld, en, da, ds>>

InitEvaluate ==
  /\ runPhase = "idle"
  /\ actions = <<>>
  /\ i = 0
  /\ pc = "done"
  /\ clock = 0
  /\ actElapsed = 0
  /\ levelNavigationCount = 0
  /\ postI = 0
  /\ thrown = "none"
  /\ browserOpen = TRUE
  /\ kpN = 0
  /\ navK = 0
  /\ navButtons = FALSE
  /\ navClicks = 0
  /\ clickAtCap = FALSE
  /\ waitRequested = 0
  /\ clickDelivered = FALSE
  /\ closedDetected = FALSE
  /\ navAllAdvanced = TRUE
  /\ advances = 0
  /\ rs = RsIdle
  /\ cl = ClIdle
  /\ gt = GtIdle
  /\ rc = RcIdle
  /\ oc = OcIdle
  /\ pl = PlIdle
  /\ rp = RpIdle
  /\ kp = KpIdle
  /\ ev = EvIdle
  /\ ld = LdIdle
  /\ en = EnIdle
  /\ da = DaIdle
  /\ ds = DsIdle
  /\ \E e \in BOOLEAN, s \in BOOLEAN : er = ErInit(e, s)

NextEvaluate ==
  \/ ErAnalyze
  \/ ErParse
  \/ ErFallback
  \/ ErAgain

SpecEvaluate == InitEvaluate /\ [][NextEvaluate]_vars

\* a number between 0 and 100
InScoreRange(v) == v.t = "number" /\ v.n >= 0 /\ v.n <= 100

\* C32: every report the evaluator returns, parsed or fallback, has a status
\* among pass, fail, partial, error and a playability_score between 0 and
\* 100, whatever the LLM response contains.
C32_ReportWellFormed ==
  er.pc = "returned" =>
    /\ er.report.status \in Statuses
    /\ InScoreRange(er.report.score)

\* C39: a playability score of the LLM that already lies between 0 and 100,
\* 0 included, is reported unchanged.
C39_InRangeScoreUnchanged ==
  /\ er.pc = "returned" /\ er.via = "parsed"
  /\ er.response.kind = "object"
  /\ InScoreRange(er.response.score)
  => er.report.score = er.response.score

(***************************************************************************)
(* SpecEnsure: InteractionEngine.ensureGameIsPlaying.  Time is counted in  *)
(* half seconds.  The page is what the classifier script would say of it;  *)
(* a click that landed or a key that was delivered may change it.          *)
(***************************************************************************)

\* const maxTime = 15000, in half seconds
MaxTime == 30

\* callers pass maxAttempts 2 or leave the default 3
EnAttempts == {2, 3}

SkipButtons == <<"skip", "got it", "close", "dismiss", "no thanks">>

StartButtons == <<"play", "new game", "start game", "start", "begin", "go">>

\* clickByText: found and clicked, nothing found, rejected
EnClickOutcomes == {"hit", "miss", "fail"}

\* wait and keypress: resolved or rejected
EnCallOutcomes == {"ok", "fail"}

EnInit(m, p) ==
  [pc |-> "first", maxAttempts |-> m, playing |-> p, i |-> 0, elapsed |-> 0,
   clicks |-> 0, keys |-> 0, classified |-> 0, firstClass |-> FALSE,
   lastClass |-> FALSE, lastKey |-> "none", result |-> "none"]

\* one isGamePlaying(3000): outcome o on a page that says p
EnClassify(e, o, p) ==
  LET res == IsGamePlayingResult(o, [playing |-> p])
  IN [e EXCEPT !.playing = p, !.lastClass = res,
               !.firstClass = IF e.classified = 0 THEN res ELSE @,
               !.classified = Min(e.classified + 1, 2),
               !.elapsed = @ + (IF o = "timeout" THEN 6 ELSE 0)]

EnReturn(e, v) == [e EXCEPT !.pc = "done", !.result = v]

EnElapse(e, d) == [e EXCEPT !.elapsed = @ + d]

EnClicked(e) == [e EXCEPT !.clicks = Min(@ + 1, 2)]

EnKeyed(e) == [e EXCEPT !.keys = Min(@ + 1, 2)]

AlreadyPlaying_Ignored(isPlaying) == FALSE

\* if (isPlaying) return true, at the start
AlreadyPlaying(isPlaying) == isPlaying

\* const isPlaying = await this.isGamePlaying(3000)
EnFirst ==
  /\ en.pc = "first"
  /\ \E o \in ClassOutcomes :
       LET e1 == EnClassify(en, o, en.playing)
       IN en' = IF AlreadyPlaying(e1.lastClass)
                THEN EnReturn(e1, "true")
                ELSE [e1 EXCEPT !.pc = "skip"]
  /\ UNCHANGED <<execVars, rs, cl, gt, rc, oc, pl, rp, kp, ev, ld, er, da, ds>>

\* the loop over skipButtons: one iteration, or its end
EnSkip ==
  /\ en.pc = "skip"
  /\ IF en.i >= Min(Len(SkipButtons), en.maxAttempts)
          \/ en.elapsed > MaxTime
     THEN en' = [en EXCEPT !.pc = "escape", !.i = 0]
     ELSE \E c \in EnClickOutcomes, w \in EnCallOutcomes,
             o \in ClassOutcomes, p \in BOOLEAN :
            LET next == [en EXCEPT !.i = @ + 1]
                e1 == EnClicked(next)
                e2 == EnClassify(EnElapse(e1, 3), o, p)
            IN en' = IF c # "hit" THEN next
                     ELSE IF w = "fail" THEN [e1 EXCEPT !.playing = p]
                     ELSE IF e2.lastClass THEN EnReturn(e2, "true")
                     ELSE e2
  /\ UNCHANGED <<execVars, rs, cl, gt, rc, oc, pl, rp, kp, ev, ld, er, da, ds>>

\* keypress(key), wait(1000), isGamePlaying(3000) inside try/catch
EnKeyBlock(key, nextpc) ==
  IF en.elapsed >= MaxTime
  THEN en' = [en EXCEPT !.pc = nextpc]
  ELSE \E k \in EnCallOutcomes, w \in EnCallOutcomes,
          o \in ClassOutcomes, p \in BOOLEAN :
         LET next == [en EXCEPT !.pc = nextpc]
             e1 == [EnKeyed(next) EXCEPT !.lastKey = key]
             e2 == EnClassify(EnElapse(e1, 2), o, p)
         IN en' = IF k = "fail" THEN next
                  ELSE IF w = "fail" THEN [e1 EXCEPT !.playing = p]
                  ELSE IF e2.lastClass THEN EnReturn(e2, "true")
                  ELSE e2

EnEscape ==
  /\ en.pc = "escape"
  /\ EnKeyBlock("Escape", "start")
  /\ UNCHANGED <<execVars, rs, cl, gt, rc, oc, pl, rp, kp, ev, ld, er, da, ds>>

SecondCheckReturns_Inverted(stillNotPlaying) == ~stillNotPlaying

\* if (!stillNotPlaying) { click again } else { return true }
SecondCheckReturns(stillNotPlaying) == stillNotPlaying

\* the loop over startButtons: one iteration, or its end
EnStart ==
  /\ en.pc = "start"
  /\ IF en.i >= Min(Len(StartButtons), en.maxAttempts * 2)
          \/ en.elapsed > MaxTime
     THEN en' = [en EXCEPT !.pc = "space", !.i = 0]
     ELSE \E c \in EnClickOutcomes, w \in EnCallOutcomes,
             o \in ClassOutcomes, p \in BOOLEAN :
            LET next == [en EXCEPT !.i = @ + 1]
                e1 == EnClicked(next)
                e2 == EnClassify(EnElapse(e1, 5), o, p)
            IN en' = IF c # "hit" THEN next
                     ELSE IF w = "fail" THEN [e1 EXCEPT !.playing = p]
                     ELSE IF e2.lastClass THEN EnReturn(e2, "true")
                     ELSE [e2 EXCEPT !.pc = "start2", !.i = en.i]
  /\ UNCHANGED <<execVars, rs, cl, gt, rc, oc, pl, rp, kp, ev, ld, er, da, ds>>

\* wait(1500) and the second check of the same start button
EnStart2 ==
  /\ en.pc = "start2"
  /\ \E w \in EnCallOutcomes, o \in ClassOutcomes, p \in BOOLEAN :
       LET next == [en EXCEPT !.pc = "start", !.i = @ + 1]
           e2 == EnClassify(EnElapse(en, 3), o, p)
       IN en' = IF w = "fail" THEN next
                ELSE IF SecondCheckReturns(e2.lastClass)
                THEN EnReturn(e2, "true")
                ELSE [e2 EXCEPT !.pc = "start3"]
  /\ UNCHANGED <<execVars, rs, cl, gt, rc, oc, pl, rp, kp, ev, ld, er, da, ds>>

\* the same button clicked again, wait(2000), third check
EnStart3 ==
  /\ en.pc = "start3"
  /\ \E c \in EnClickOutcomes, w \in EnCallOutcomes,
        o \in ClassOutcomes, p \in BOOLEAN :
       LET next == [en EXCEPT !.pc = "start", !.i = @ + 1]
           e1 == IF c = "hit" THEN [EnClicked(next) EXCEPT !.playing = p]
                              ELSE next
           e2 == EnClassify(EnElapse(e1, 4), o, p)
       IN en' = IF c = "fail" THEN next
                ELSE IF w = "fail" THEN e1
                ELSE IF e2.lastClass THEN EnReturn(e2, "true")
                ELSE e2
  /\ UNCHANGED <<execVars, rs, cl, gt, rc, oc, pl, rp, kp, ev, ld, er, da, ds>>

EnSpace ==
  /\ en.pc = "space"
  /\ EnKeyBlock("Space", "enter")
  /\ UNCHANGED <<execVars, rs, cl, gt, rc, oc, pl, rp, kp, ev, ld, er, da, ds>>

EnEnter ==
  /\ en.pc = "enter"
  /\ EnKeyBlock("Enter", "giveup")
  /\ UNCHANGED <<execVars, rs, cl, gt, rc, oc, pl, rp, kp, ev, ld, er, da, ds>>

\* return false at the end
EnGiveUp ==
  /\ en.pc = "giveup"
  /\ en' = EnReturn(en, "false")
  /\ UNCHANGED <<execVars, rs, cl, gt, rc, oc, pl, rp, kp, ev, ld, er, da, ds>>

EnAgain ==
  /\ en.pc = "done"
  /\ \E m \in EnAttempts, p \in BOOLEAN : en' = EnInit(m, p)
  /\ UNCHANGED <<execVars, rs, cl, gt, rc, oc, pl, rp, kp, ev, ld, er, da, ds>>

InitEnsure ==
  /\ runPhase = "idle"
  /\ actions = <<>>
  /\ i = 0
  /\ pc = "done"
  /\ clock = 0
  /\ actElapsed = 0
  /\ levelNavigationCount = 0
  /\ postI = 0
  /\ thrown = "none"
  /\ browserOpen = TRUE
  /\ kpN = 0
  /\ navK = 0
  /\ navButtons = FALSE
  /\ navClicks = 0
  /\ clickAtCap = FALSE
  /\ waitRequested = 0
  /\ clickDelivered = FALSE
  /\ closedDetected = FALSE
  /\ navAllAdvanced = TRUE
  /\ advances = 0
  /\ rs = RsIdle
  /\ cl = ClIdle
  /\ gt = GtIdle
  /\ rc = RcIdle
  /\ oc = OcIdle
  /\ pl = PlIdle
  /\ rp = RpIdle
  /\ kp = KpIdle
  /\ ev = EvIdle
  /\ ld = LdIdle
  /\ er = ErIdle
  /\ da = DaIdle
  /\ ds = DsIdle
  /\ \E m \in EnAttempts, p \in BOOLEAN : en = EnInit(m, p)

NextEnsure ==
  \/ EnFirst
  \/ EnSkip
  \/ EnEscape
  \/ EnStart
  \/ EnStart2
  \/ EnStart3
  \/ EnSpace
  \/ EnEnter
  \/ EnGiveUp
  \/ EnAgain

SpecEnsure == InitEnsure /\ [][NextEnsure]_vars

(***************************************************************************)
(* SpecStartGuard: one call of handleModalsAndDialogs or one call of       *)
(* ensureGameIsPlaying, the two functions that begin with a check of       *)
(* isGamePlaying.                                                          *)
(***************************************************************************)
InitStartGuard == InitResolver \/ InitEnsure

NextStartGuard == NextResolver \/ NextEnsure

SpecStartGuard == InitStartGuard /\ [][NextStartGuard]_vars

\* C33: when the classifier reports Playing at the start of the overlay
\* resolver or of ensureGameIsPlaying, the call issues no click and no
\* keypress.
C33_PlayingAtStartNoInput ==
  /\ (rs.pc # "idle" /\ rs.firstClass = "playing"
        => ~rs.clicked /\ ~rs.keyed /\ ~rs.landed)
  /\ (en.pc # "idle" /\ en.firstClass => en.clicks = 0 /\ en.keys = 0)

C33_Witness ==
  /\ en.pc = "done" /\ en.firstClass /\ en.result = "true"
  /\ en.classified = 1 /\ en.clicks = 0 /\ en.keys = 0

\* the same case in the overlay resolver
C33_ResolverCase ==
  /\ rs.pc = "done" /\ rs.firstClass = "playing" /\ rs.result = "false"
  /\ rs.page.texts # {}

\* C35: ensureGameIsPlaying never throws: every call ends by returning true
\* or false; and it returns true only if the last classification it made
\* before returning reported Playing.
C35_TrueOnlyAfterPlaying ==
  en.pc = "done" =>
    /\ en.result \in {"true", "false"}
    /\ en.classified >= 1
    /\ (en.result = "true" => en.lastClass)

C35_Witness ==
  /\ en.pc = "done" /\ en.result = "true" /\ en.lastClass
  /\ ~en.firstClass /\ en.clicks >= 1 /\ en.keys >= 1
  /\ en.lastKey = "Escape"

(***************************************************************************)
(* SpecDetect: InteractionEngine.detectAndInteract as testGame calls it.   *)
(* The page has Start / New Game controls by text, a start button that a   *)
(* CSS selector of Step 2 finds, possibly a tutorial overlay, and the      *)
(* verdict the classifier script would give.  handleModalsAndDialogs,      *)
(* handleSelectionScreen and ensureGameIsPlaying are taken by their        *)
(* effect: the first and the last begin with isGamePlaying and click       *)
(* nothing when it is true.                                                *)
(***************************************************************************)

\* labels of the Start / New Game controls of a page, in lower case
DaTexts == {"start game", "new game"}

\* startGameButtons of Step 0, in lower case
StartGameButtons ==
  <<"start game", "start game", "new game", "new game", "start",
    "start game">>

\* newGameButtons of Step 0.5
NewGameButtons == <<"new game", "start new game", "start game">>

\* clickByText(b, {exact: false}) finds a control labelled t
DaIncludes(t, b) == t = b \/ (b = "start" /\ t = "start game")

DaFinds(page, b) == \E t \in page.texts : DaIncludes(t, b)

DaPages ==
  {[texts |-> T, selectorBtn |-> s, tutorial |-> u, playing |-> p] :
     T \in SUBSET DaTexts, s \in BOOLEAN, u \in BOOLEAN, p \in BOOLEAN}

\* the page after a Start / New Game control was clicked: the game has
\* (re)started or not, the control stays or goes
DaAfterStart(page) ==
  {[page EXCEPT !.playing = p, !.texts = T, !.selectorBtn = s] :
     p \in BOOLEAN, T \in {page.texts, {}}, s \in {page.selectorBtn, FALSE}}

DaInit(page) ==
  [pc |-> "step0", page |-> page, playingAtCall |-> page.playing, k |-> 1,
   startClicks |-> 0, firstInput |-> "none", result |-> "none"]

\* a Start / New Game control was clicked and the page became np
DaStartClicked(d, np, how) ==
  [d EXCEPT !.page = np, !.startClicks = Min(@ + 1, 2),
            !.firstInput = IF @ = "none" THEN how ELSE @]

DaReturn(d) == [d EXCEPT !.pc = "done", !.result = "returned"]

DaThrow(d) == [d EXCEPT !.pc = "done", !.result = "threw"]

\* Step 0: one iteration of the loop over startGameButtons, or its end;
\* every iteration is inside try/catch
DaStep0 ==
  /\ da.pc = "step0"
  /\ IF da.k > Len(StartGameButtons)
     THEN da' = [da EXCEPT !.pc = "tutorial", !.k = 1]
     ELSE LET b == StartGameButtons[da.k]
              next == [da EXCEPT !.k = @ + 1]
          IN \/ da' = next  \* nothing found, or the call was rejected
             \/ /\ DaFinds(da.page, b)
                /\ \E np \in DaAfterStart(da.page), w \in {"ok", "fail"},
                      o1 \in ClassOutcomes, o2 \in ClassOutcomes :
                     LET d1 == DaStartClicked(next, np, "step0")
                     IN \* a rejected wait is caught: on to the next text
                        da' = IF w = "fail" THEN d1
                              ELSE IF IsGamePlayingResult(o1, np)
                                      \/ IsGamePlayingResult(o2, np)
                              THEN DaReturn(d1)
                              ELSE d1
  /\ UNCHANGED <<execVars, rs, cl, gt, rc, oc, pl, rp, kp, ev, ld, er, en, ds>>

\* Step 0.5: the evaluate of isInTutorial, outside any try
DaTutorial ==
  /\ da.pc = "tutorial"
  /\ \E o \in {"ok", "fail"} :
       da' = IF o = "fail" THEN DaThrow(da)
             ELSE IF da.page.tutorial THEN [da EXCEPT !.pc = "tut_loop"]
             ELSE [da EXCEPT !.pc = "modals"]
  /\ UNCHANGED <<execVars, rs, cl, gt, rc, oc, pl, rp, kp, ev, ld, er, en, ds>>

\* Step 0.5: one iteration of the loop over newGameButtons (click, wait,
\* the confirmation, isGamePlaying), or its end; no try around it
DaTutLoop ==
  /\ da.pc = "tut_loop"
  /\ IF da.k > Len(NewGameButtons)
     THEN da' = [da EXCEPT !.pc = "modals", !.k = 1]
     ELSE LET b == NewGameButtons[da.k]
              next == [da EXCEPT !.k = @ + 1]
          IN \/ da' = next
             \/ da' = DaThrow(da)
             \/ /\ DaFinds(da.page, b)
                /\ \E np \in DaAfterStart(da.page), w \in {"ok", "fail"},
                      o \in ClassOutcomes :
                     LET d1 == DaStartClicked(next, np, "tutorial")
                     IN da' = IF w = "fail" THEN DaThrow(d1)
                              ELSE IF IsGamePlayingResult(o, np)
                              THEN DaReturn(d1)
                              ELSE d1
  /\ UNCHANGED <<execVars, rs, cl, gt, rc, oc, pl, rp, kp, ev, ld, er, en, ds>>

\* a function that begins with isGamePlaying and leaves a game that is
\* classified Playing alone; otherwise it may click a Start / New Game
\* control
DaGuarded(d, how, nextpc) ==
  \E o \in ClassOutcomes :
    IF IsGamePlayingResult(o, d.page)
    THEN da' = [d EXCEPT !.pc = nextpc]
    ELSE \/ da' = [d EXCEPT !.pc = nextpc]
         \/ /\ d.page.texts # {}
            /\ \E np \in DaAfterStart(d.page) :
                 da' = [DaStartClicked(d, np, how) EXCEPT !.pc = nextpc]

\* Step 1: handleModalsAndDialogs, which rethrows a failed liveness probe
\* whose message does not say 'closed'
DaModals ==
  /\ da.pc = "modals"
  /\ \/ da' = DaThrow(da)
     \/ DaGuarded(da, "modals", "selection")
  /\ UNCHANGED <<execVars, rs, cl, gt, rc, oc, pl, rp, kp, ev, ld, er, en, ds>>

\* Steps 1.25 and 1.3: handleSelectionScreen, isCanvasOnlyGame and the
\* click at the centre of the canvas; no Start control is involved
DaSelection ==
  /\ da.pc = "selection"
  /\ \E p \in BOOLEAN, r \in {"ok", "throw"} :
       da' = IF r = "throw" THEN DaThrow(da)
             ELSE [da EXCEPT !.pc = "ensure", !.page.playing = p,
                             !.firstInput = IF @ = "none" THEN "other"
                                                          ELSE @]
  /\ UNCHANGED <<execVars, rs, cl, gt, rc, oc, pl, rp, kp, ev, ld, er, en, ds>>

\* Step 1.5: ensureGameIsPlaying()
DaEnsure ==
  /\ da.pc = "ensure"
  /\ DaGuarded(da, "ensure", "step2")
  /\ UNCHANGED <<execVars, rs, cl, gt, rc, oc, pl, rp, kp, ev, ld, er, en, ds>>

\* Step 2: the first start button found by a CSS selector or by text is
\* clicked, whatever the classifier says; then handleModalsAndDialogs and
\* ensureGameIsPlaying(2), and return
DaStep2 ==
  /\ da.pc = "step2"
  /\ \/ /\ ~da.page.selectorBtn /\ da.page.texts = {}
        /\ da' = DaReturn(da)
     \/ /\ da.page.selectorBtn \/ da.page.texts # {}
        /\ \E np \in DaAfterStart(da.page) :
             da' = DaReturn(DaStartClicked(da, np, "step2"))
  /\ UNCHANGED <<execVars, rs, cl, gt, rc, oc, pl, rp, kp, ev, ld, er, en, ds>>

DaAgain ==
  /\ da.pc = "done"
  /\ \E page \in DaPages : da' = DaInit(page)
  /\ UNCHANGED <<execVars, rs, cl, gt, rc, oc, pl, rp, kp, ev, ld, er, en, ds>>

InitDetect ==
  /\ runPhase = "idle"
  /\ actions = <<>>
  /\ i = 0
  /\ pc = "done"
  /\ clock = 0
  /\ actElapsed = 0
  /\ levelNavigationCount = 0
  /\ postI = 0
  /\ thrown = "none"
  /\ browserOpen = TRUE
  /\ kpN = 0
  /\ navK = 0
  /\ navButtons = FALSE
  /\ navClicks = 0
  /\ clickAtCap = FALSE
  /\ waitRequested = 0
  /\ clickDelivered = FALSE
  /\ closedDetected = FALSE
  /\ navAllAdvanced = TRUE
  /\ advances = 0
  /\ rs = RsIdle
  /\ cl = ClIdle
  /\ gt = GtIdle
  /\ rc = RcIdle
  /\ oc = OcIdle
  /\ pl = PlIdle
  /\ rp = RpIdle
  /\ kp = KpIdle
  /\ ev = EvIdle
  /\ ld = LdIdle
  /\ er = ErIdle
  /\ en = EnIdle
  /\ ds = DsIdle
  /\ \E page \in DaPages : da = DaInit(page)

NextDetect ==
  \/ DaStep0
  \/ DaTutorial
  \/ DaTutLoop
  \/ DaModals
  \/ DaSelection
  \/ DaEnsure
  \/ DaStep2
  \/ DaAgain

SpecDetect == InitDetect /\ [][NextDetect]_vars

\* C34: detectAndInteract never clicks a Start / New Game control when the
\* game is already Playing at the moment it is called.
C34_NoStartClickWhenPlaying ==
  da.pc # "idle" /\ da.playingAtCall => da.startClicks = 0

\* C36: after an action has detected that the browser session is closed,
\* executeActions performs none of the remaining actions of the script: no
\* further executeAction is entered.
C36_NoActionAfterClosedDetected ==
  InExecuteActions /\ closedDetected /\ ~browserOpen => pc # "exec"

(***************************************************************************)
(* SpecDash: the dashboard server's test state (dashboard/server.ts): the  *)
(* handlers of POST /api/test, GET /api/test/status and POST               *)
(* /api/test/reset, runTestAsync with its watchdog timer, and              *)
(* forceResetTestState.  The clock counts units of 150 s.  A handler runs  *)
(* as one step; a run takes a step to start, one to create its session    *)
(* and one to end.                                                         *)
(***************************************************************************)

\* runs the model lets start
MaxRuns == 2

\* the last clock value
DashClock == 4

\* 300000 ms: maxTestTime of the watchdog and the age of a stuck test
MaxTestTime == 2

RunIds == 1..MaxRuns

NoRun == [st |-> "none", start |-> 0, session |-> "none", timer |-> "off"]

DsInit ==
  [pc |-> "serve", clock |-> 0, testRunning |-> FALSE, currentTest |-> 0,
   currentSession |-> 0, runs |-> [r \in RunIds |-> NoRun],
   resp |-> "none", forced |-> FALSE]

Executing(s) == {r \in RunIds : s.runs[r].st = "executing"}

\* Date.now() - this.currentTest.startTime, 0 without a current test
StuckTime(s) ==
  IF s.currentTest = 0 THEN 0 ELSE s.clock - s.runs[s.currentTest].start

Stuck_Always(s) == TRUE

\* stuckTime > 300000
Stuck(s) == StuckTime(s) > MaxTestTime

\* this.currentSession.close() and this.currentSession = null
CloseCurrent(s) ==
  IF s.currentSession = 0 THEN s
  ELSE [s EXCEPT !.runs[s.currentSession].session = "closed",
                 !.currentSession = 0]

\* forceResetTestState, called on behalf of run `by` (0: by a handler);
\* forced records that it cleared the state under a run still executing
ForceResetTestState(s, by) ==
  [CloseCurrent(s) EXCEPT
     !.testRunning = FALSE, !.currentTest = 0,
     !.forced = @ \/ (Executing(s) \ {by} # {})]

\* runTestAsync up to the try block, for the new run r
StartRun(s, r) ==
  LET s1 == IF s.testRunning THEN ForceResetTestState(s, 0) ELSE s
      s2 == CloseCurrent(s1)
  IN [s2 EXCEPT !.testRunning = TRUE, !.currentTest = r,
                !.runs[r] = [st |-> "executing", start |-> s.clock,
                             session |-> "none", timer |-> "armed"]]

Quiet(s) == [s EXCEPT !.resp = "none"]

\* POST /api/test
DsPost ==
  /\ ds.pc = "serve"
  /\ \E valid \in BOOLEAN :
       IF ~valid THEN ds' = [ds EXCEPT !.resp = "400"]
       ELSE IF ds.testRunning /\ ~Stuck(ds)
       THEN ds' = [ds EXCEPT !.resp = "409"]
       ELSE \E r \in RunIds :
              /\ ds.runs[r].st = "none"
              /\ \A q \in RunIds : q < r => ds.runs[q].st # "none"
              /\ LET s1 == IF ds.testRunning
                           THEN ForceResetTestState(ds, 0) ELSE ds
                 IN ds' = [StartRun(s1, r) EXCEPT !.resp = "started"]
  /\ UNCHANGED <<execVars, rs, cl, gt, rc, oc, pl, rp, kp, ev, ld, er, en, da>>

\* GET /api/test/status
DsStatus ==
  /\ ds.pc = "serve"
  /\ ds' = IF ds.testRunning /\ Stuck(ds)
           THEN Quiet(ForceResetTestState(ds, 0)) ELSE Quiet(ds)
  /\ UNCHANGED <<execVars, rs, cl, gt, rc, oc, pl, rp, kp, ev, ld, er, en, da>>

\* POST /api/test/reset
DsManualReset ==
  /\ ds.pc = "serve"
  /\ ds' = Quiet(ForceResetTestState(ds, 0))
  /\ UNCHANGED <<execVars, rs, cl, gt, rc, oc, pl, rp, kp, ev, ld, er, en, da>>

\* the run creates its session: this.currentSession = session
DsCreateSession ==
  /\ ds.pc = "serve"
  /\ \E r \in Executing(ds) :
       /\ ds.runs[r].session = "none"
       /\ ds' = [Quiet(ds) EXCEPT !.runs[r].session = "open",
                                  !.currentSession = r]
  /\ UNCHANGED <<execVars, rs, cl, gt, rc, oc, pl, rp, kp, ev, ld, er, en, da>>

\* the try block ends: the run closes its own session and clears
\* currentSession; then finally: clearTimeout and forceResetTestState
DsRunCompletes ==
  /\ ds.pc = "serve"
  /\ \E r \in Executing(ds) :
       /\ ds.runs[r].session # "none"
       /\ LET s1 == [Quiet(ds) EXCEPT !.runs[r].session = "closed",
                                      !.currentSession = 0]
              s2 == ForceResetTestState(s1, r)
          IN ds' = [s2 EXCEPT !.runs[r].st = "done", !.runs[r].timer = "off"]
  /\ UNCHANGED <<execVars, rs, cl, gt, rc, oc, pl, rp, kp, ev, ld, er, en, da>>

\* the try block throws: the catch closes this.currentSession; then
\* finally: clearTimeout and forceResetTestState
DsRunFails ==
  /\ ds.pc = "serve"
  /\ \E r \in Executing(ds) :
       LET s1 == CloseCurrent(Quiet(ds))
           s2 == ForceResetTestState(s1, r)
       IN ds' = [s2 EXCEPT !.runs[r].st = "done", !.runs[r].timer = "off"]
  /\ UNCHANGED <<execVars, rs, cl, gt, rc, oc, pl, rp, kp, ev, ld, er, en, da>>

\* the watchdog timer of run r fires maxTestTime after its start
DsWatchdog ==
  /\ ds.pc = "serve"
  /\ \E r \in Executing(ds) :
       /\ ds.runs[r].timer = "armed"
       /\ ds.clock >= ds.runs[r].start + MaxTestTime
       /\ LET s1 == IF ds.testRunning
                    THEN ForceResetTestState(Quiet(ds), r) ELSE Quiet(ds)
          IN ds' = [s1 EXCEPT !.runs[r].timer = "fired",
                              !.forced = @ \/ ds.testRunning]
  /\ UNCHANGED <<execVars, rs, cl, gt, rc, oc, pl, rp, kp, ev, ld, er, en, da>>

\* time passes; a timer that is due fires before time goes on
DsTick ==
  /\ ds.pc = "serve"
  /\ ds.clock < DashClock
  /\ \A r \in Executing(ds) :
       ds.runs[r].timer = "armed" => ds.clock < ds.runs[r].start + MaxTestTime
  /\ ds' = [Quiet(ds) EXCEPT !.clock = @ + 1]
  /\ UNCHANGED <<execVars, rs, cl, gt, rc, oc, pl, rp, kp, ev, ld, er, en, da>>

InitDash ==
  /\ runPhase = "idle"
  /\ actions = <<>>
  /\ i = 0
  /\ pc = "done"
  /\ clock = 0
  /\ actElapsed = 0
  /\ levelNavigationCount = 0
  /\ postI = 0
  /\ thrown = "none"
  /\ browserOpen = TRUE
  /\ kpN = 0
  /\ navK = 0
  /\ navButtons = FALSE
  /\ navClicks = 0
  /\ clickAtCap = FALSE
  /\ waitRequested = 0
  /\ clickDelivered = FALSE
  /\ closedDetected = FALSE
  /\ navAllAdvanced = TRUE
  /\ advances = 0
  /\ rs = RsIdle
  /\ cl = ClIdle
  /\ gt = GtIdle
  /\ rc = RcIdle
  /\ oc = OcIdle
  /\ pl = PlIdle
  /\ rp = RpIdle
  /\ kp = KpIdle
  /\ ev = EvIdle
  /\ ld = LdIdle
  /\ er = ErIdle
  /\ en = EnIdle
  /\ da = DaIdle
  /\ ds = DsInit

NextDash ==
  \/ DsPost
  \/ DsStatus
  \/ DsManualReset
  \/ DsCreateSession
  \/ DsRunCompletes
  \/ DsRunFails
  \/ DsWatchdog
  \/ DsTick

SpecDash == InitDash /\ [][NextDash]_vars

\* C37 (as claimed): the dashboard runs at most one test at a time: while a
\* started run is still executing no second run starts.
C37_AtMostOneRunExecuting ==
  ds.pc = "serve" => Cardinality(Executing(ds)) <= 1

\* a step of the POST /api/test handler
C37_PostStep == ds.pc = "serve" /\ ds'.resp # "none"

\* C37 (amended): POST /api/test is answered 409, and starts no run, exactly
\* when the running flag is set and the current test started at most 5
\* minutes ago.  Two runs execute at once only after a reset cleared the
\* state under a run that was still executing.
C37_OneRunUnlessForcedReset ==
  /\ [](ds.pc = "serve" /\ Cardinality(Executing(ds)) > 1 => ds.forced)
  /\ [][ C37_PostStep =>
           /\ (ds.testRunning /\ StuckTime(ds) <= MaxTestTime
                 => ds'.resp \in {"400", "409"} /\ ds'.runs = ds.runs)
           /\ (ds'.resp = "409"
                 => ds.testRunning /\ StuckTime(ds) <= MaxTestTime) ]_vars

C37_Witness ==
  /\ ds.pc = "serve" /\ ds.resp = "409" /\ ds.testRunning
  /\ ds.clock = MaxTestTime /\ ds.currentTest = 1
  /\ ds.runs[1].st = "executing" /\ ds.runs[1].start = 0
  /\ ds.runs[2].st = "none"

\* the reset of run r: its finally block or its watchdog
C38_ResetOf(r) ==
  \/ ds.runs[r].st = "executing" /\ ds'.runs[r].st = "done"
  \/ ds.runs[r].timer = "armed" /\ ds'.runs[r].timer = "fired"

\* C38: a state reset triggered for one dashboard run (its finally block or
\* its watchdog) never closes the browser session of, nor clears the running
\* flag and current-test record of, a different test that started later.
C38_ResetAffectsOwnRunOnly ==
  [][ ds.pc = "serve" =>
        \A r \in RunIds, q \in RunIds :
          C38_ResetOf(r) /\ q > r /\ ds.runs[q].st = "executing"
            => /\ ds'.runs[q].session = ds.runs[q].session
               /\ (ds.currentTest = q
                     => ds'.currentTest = q /\ ds'.testRunning) ]_vars

====
